---- MODULE Spec2Model ----
(***************************************************************************)
(* Model of the product/catalog synchronisation engine of the Shopify      *)
(* commission back office: the POST /vendors/sync-products handler of      *)
(* server.js, the remote catalog helpers it calls, the stream reader of    *)
(* public/js/vendors.js, and the connection handling of db.js.             *)
(***************************************************************************)
EXTENDS Integers, Sequences, FiniteSets, TLC

(***************************************************************************)
(* Bounds of the model.                                                    *)
(***************************************************************************)
\* longest candidate list of a sync request
MaxCandidates == 2
\* products per listing page (the code asks for limit=250; scaled down so
\* that small catalogs span several pages)
PageSize == 1

\* longest candidate list of two sync requests that run at the same time
MaxConcurrentCandidates == 1

\* connection attempts of one process the model follows
MaxAttempts == 2

\* longest list of order ids of a /send-orders request
MaxOrders == 2

\* the sync requests of one behaviour: the second is a repeat of the first
Sessions == {1, 2}

(***************************************************************************)
(* JavaScript values.  A value is a record [t, n, s]: its type tag, its    *)
(* number when it is a number, its characters when it is a string.         *)
(***************************************************************************)
JsUndefined == [t |-> "undefined", n |-> 0, s |-> ""]
JsNum(n) == [t |-> "number", n |-> n, s |-> ""]
JsStr(s) == [t |-> "string", n |-> 0, s |-> s]
JsNull == [t |-> "null", n |-> 0, s |-> ""]
JsNaN == [t |-> "number", n |-> 0, s |-> "NaN"]
\* Object.prototype itself (what obj["__proto__"] reads on a plain object)
JsObjectPrototype == [t |-> "object", n |-> 0, s |-> "[object Object]"]
\* a function inherited from Object.prototype (constructor, toString, ...)
JsFunction == [t |-> "function", n |-> 0, s |-> "function () { [native code] }"]

\* the keys every plain object inherits from Object.prototype
ObjectPrototypeKeys ==
    {"constructor", "toString", "valueOf", "hasOwnProperty", "isPrototypeOf",
     "propertyIsEnumerable", "toLocaleString"}

\* JavaScript truthiness, as tested by if (x) and x || y
Truthy(v) ==
    CASE v.t \in {"undefined", "null"} -> FALSE
      [] v.t = "number" -> v.n # 0
      [] v.t = "string" -> v.s # ""
      [] OTHER -> TRUE

Digit(d) ==
    CASE d = 0 -> "0" [] d = 1 -> "1" [] d = 2 -> "2" [] d = 3 -> "3"
      [] d = 4 -> "4" [] d = 5 -> "5" [] d = 6 -> "6" [] d = 7 -> "7"
      [] d = 8 -> "8" [] OTHER -> "9"

RECURSIVE NatToString(_)
NatToString(n) ==
    IF n < 10 THEN Digit(n) ELSE NatToString(n \div 10) \o Digit(n % 10)

\* String(v)
JsString(v) ==
    CASE v.t = "undefined" -> "undefined"
      [] v.t = "null" -> "null"
      [] v.t = "number" ->
            IF v.s = "NaN" THEN "NaN"
            ELSE IF v.n < 0 THEN "-" \o NatToString(-v.n) ELSE NatToString(v.n)
      [] OTHER -> v.s

\* a missing string property (title, handle, sku) of a parsed JSON object
Undefined == "<undefined>"

\* the property key a value is coerced to in obj[key]
PropertyKey(key) == IF key = Undefined THEN "undefined" ELSE key

(***************************************************************************)
(* A plain object used as a map (reduce(..., {})): its own properties are  *)
(* a function from keys to values.                                         *)
(***************************************************************************)
EmptyObject == [key \in {} |-> JsUndefined]

\* map[key] = value: "__proto__" is an accessor of Object.prototype, and
\* assigning a primitive to it changes nothing
SetProperty(map, key, value) ==
    IF PropertyKey(key) = "__proto__"
    THEN map
    ELSE [k \in DOMAIN map \cup {PropertyKey(key)} |->
            IF k = PropertyKey(key) THEN value ELSE map[k]]

\* map[key]: an own property, else what Object.prototype supplies
GetProperty(map, key) ==
    CASE PropertyKey(key) \in DOMAIN map -> map[PropertyKey(key)]
      [] PropertyKey(key) = "__proto__" -> JsObjectPrototype
      [] PropertyKey(key) \in ObjectPrototypeKeys -> JsFunction
      [] OTHER -> JsUndefined

(***************************************************************************)
(* Arrays of a parsed JSON body that may be absent.                        *)
(***************************************************************************)
NoArray == [defined |-> FALSE, items |-> <<>>]
JsArray(items) == [defined |-> TRUE, items |-> items]

(***************************************************************************)
(* Handle derivation (server.js:1781):                                     *)
(*   title.toLowerCase().replace(/\s+/g, '-').replace(/[^a-z0-9-]/g, '')   *)
(***************************************************************************)
LowerChar(c) ==
    CASE c = "A" -> "a" [] c = "B" -> "b" [] c = "C" -> "c" [] c = "D" -> "d"
      [] c = "E" -> "e" [] c = "F" -> "f" [] c = "G" -> "g" [] c = "H" -> "h"
      [] c = "I" -> "i" [] c = "J" -> "j" [] c = "K" -> "k" [] c = "L" -> "l"
      [] c = "M" -> "m" [] c = "N" -> "n" [] c = "O" -> "o" [] c = "P" -> "p"
      [] c = "Q" -> "q" [] c = "R" -> "r" [] c = "S" -> "s" [] c = "T" -> "t"
      [] c = "U" -> "u" [] c = "V" -> "v" [] c = "W" -> "w" [] c = "X" -> "x"
      [] c = "Y" -> "y" [] c = "Z" -> "z" [] OTHER -> c

RECURSIVE ToLowerCase(_)
ToLowerCase(str) ==
    IF str = "" THEN "" ELSE LowerChar(Head(str)) \o ToLowerCase(Tail(str))

IsWhitespace(c) == c \in {" ", "\t", "\n", "\r"}

RECURSIVE SkipWhitespace(_)
SkipWhitespace(str) ==
    IF str # "" /\ IsWhitespace(Head(str)) THEN SkipWhitespace(Tail(str)) ELSE str

\* .replace(/\s+/g, '-')
RECURSIVE HyphenateWhitespace(_)
HyphenateWhitespace(str) ==
    IF str = "" THEN ""
    ELSE IF IsWhitespace(Head(str))
         THEN "-" \o HyphenateWhitespace(SkipWhitespace(str))
         ELSE Head(str) \o HyphenateWhitespace(Tail(str))

HandleChars ==
    {"a", "b", "c", "d", "e", "f", "g", "h", "i", "j", "k", "l", "m", "n", "o",
     "p", "q", "r", "s", "t", "u", "v", "w", "x", "y", "z",
     "0", "1", "2", "3", "4", "5", "6", "7", "8", "9", "-"}

\* .replace(/[^a-z0-9-]/g, '')
RECURSIVE StripNonHandleChars(_)
StripNonHandleChars(str) ==
    IF str = "" THEN ""
    ELSE IF Head(str) \in HandleChars
         THEN Head(str) \o StripNonHandleChars(Tail(str))
         ELSE StripNonHandleChars(Tail(str))

\* (mutant of DeriveHandle) the title is not lower-cased first
DeriveHandleKeepingCase(title) == StripNonHandleChars(HyphenateWhitespace(title))

DeriveHandle(title) == StripNonHandleChars(HyphenateWhitespace(ToLowerCase(title)))

(***************************************************************************)
(* Number(v) and Math.max(0, n).                                           *)
(***************************************************************************)
DigitChars == {"0", "1", "2", "3", "4", "5", "6", "7", "8", "9"}

DigitValue(c) == CHOOSE d \in 0..9 : Digit(d) = c

RECURSIVE AllDigits(_)
AllDigits(str) == str = "" \/ (Head(str) \in DigitChars /\ AllDigits(Tail(str)))

RECURSIVE DigitsToNat(_, _)
DigitsToNat(str, acc) ==
    IF str = "" THEN acc ELSE DigitsToNat(Tail(str), 10 * acc + DigitValue(Head(str)))

JsNumber(v) ==
    CASE v.t = "number" -> v
      [] v.t = "null" -> JsNum(0)
      [] v.t = "string" /\ AllDigits(v.s) -> JsNum(DigitsToNat(v.s, 0))
      [] v.t = "string" /\ v.s # "" /\ Head(v.s) = "-" /\ Tail(v.s) # "" /\ AllDigits(Tail(v.s)) ->
            JsNum(0 - DigitsToNat(Tail(v.s), 0))
      [] OTHER -> JsNaN

\* (mutant of MathMax0) the quantity is not floored at 0
MathMaxOmitted(v) == v

MathMax0(v) == IF v.s = "NaN" THEN JsNaN ELSE IF v.n < 0 THEN JsNum(0) ELSE v

(***************************************************************************)
(* Payload Mapper: the update payload (server.js:1793-1845).               *)
(***************************************************************************)
\* a missing tags property; tags sent as an array; tags sent as one string
NoTags == [t |-> "undefined", items |-> <<>>, s |-> ""]
TagArray(items) == [t |-> "array", items |-> items, s |-> ""]
TagString(s) == [t |-> "string", items |-> <<>>, s |-> s]

\* String(v.price || "0")
PriceString(v) == JsStr(JsString(IF Truthy(v.price) THEN v.price ELSE JsStr("0")))

\* Math.max(0, Number(v.inventory_quantity || 0))
InventoryQuantity(v) ==
    MathMax0(JsNumber(IF Truthy(v.inventory_quantity) THEN v.inventory_quantity ELSE JsNum(0)))

\* if (v.compare_at_price) payload.compare_at_price = String(v.compare_at_price)
CompareAtPrice(v) ==
    IF Truthy(v.compare_at_price) THEN JsStr(JsString(v.compare_at_price)) ELSE JsUndefined

\* if (x): a string property that may be missing
Present(str) == str # Undefined /\ str # ""

\* existingVariants.reduce((map, variant) => { if (variant.sku) map[variant.sku] = variant.id; ... }, {})
RECURSIVE ExistingVariantMapFrom(_, _)
ExistingVariantMapFrom(existingVariants, map) ==
    IF existingVariants = <<>> THEN map
    ELSE ExistingVariantMapFrom(Tail(existingVariants),
            IF Present(Head(existingVariants).sku)
            THEN SetProperty(map, Head(existingVariants).sku, JsNum(Head(existingVariants).id))
            ELSE map)

ExistingVariantMap(existingVariants) == ExistingVariantMapFrom(existingVariants, EmptyObject)

\* const existingVariantId = v.sku ? existingVariantMap[v.sku] : null
ExistingVariantId(v, existingVariantMap) ==
    IF Present(v.sku) THEN GetProperty(existingVariantMap, v.sku) ELSE JsNull

\* one element of product.variants.map(...) of the update payload; id is
\* JsUndefined when the object has no id property
UpdateVariantPayload(v, existingVariantMap) ==
    [id |-> IF Truthy(ExistingVariantId(v, existingVariantMap))
            THEN ExistingVariantId(v, existingVariantMap)
            ELSE JsUndefined,
     price |-> PriceString(v),
     inventory_quantity |-> InventoryQuantity(v),
     inventory_management |-> "shopify",
     option1 |-> v.option1,
     option2 |-> v.option2,
     option3 |-> v.option3,
     sku |-> v.sku,
     compare_at_price |-> CompareAtPrice(v)]

\* product.options.map / product.variants.map throw a TypeError when the
\* candidate has no such array
UpdatePayloadThrows(product) == ~product.options.defined \/ ~product.variants.defined

UpdatePayload(product, vendor, existingProductId, existingProduct) ==
    [id |-> existingProductId,
     title |-> product.title,
     body_html |-> "",
     vendor |-> vendor.name,
     product_type |-> product.product_type,
     tags |-> product.tags,
     status |-> IF Present(product.status) THEN product.status ELSE "active",
     options |-> [i \in 1..Len(product.options.items) |->
                    [name |-> product.options.items[i].name,
                     values |-> product.options.items[i].values]],
     variants |-> [i \in 1..Len(product.variants.items) |->
                    UpdateVariantPayload(product.variants.items[i],
                                         ExistingVariantMap(existingProduct.variants))]]

(***************************************************************************)
(* Payload Mapper: the create payload (server.js:1852-1897).               *)
(***************************************************************************)
RECURSIVE Join(_, _)
Join(items, sep) ==
    IF items = <<>> THEN ""
    ELSE IF Len(items) = 1 THEN items[1]
    ELSE items[1] \o sep \o Join(Tail(items), sep)

\* if (product.tags && product.tags.length > 0)
\*     tags = Array.isArray(product.tags) ? product.tags.join(",") : product.tags
CreateTags(product) ==
    CASE product.tags.t = "array" /\ Len(product.tags.items) > 0 ->
            TagString(Join(product.tags.items, ","))
      [] product.tags.t = "string" /\ product.tags.s # "" -> product.tags
      [] OTHER -> NoTags

CreateVariantPayload(v) ==
    [title |-> v.title,
     price |-> PriceString(v),
     inventory_quantity |-> InventoryQuantity(v),
     inventory_management |-> "shopify",
     compare_at_price |-> CompareAtPrice(v),
     option1 |-> IF Present(v.option1) THEN v.option1 ELSE Undefined,
     option2 |-> IF Present(v.option2) THEN v.option2 ELSE Undefined,
     option3 |-> IF Present(v.option3) THEN v.option3 ELSE Undefined,
     sku |-> IF Present(v.sku) THEN v.sku ELSE Undefined]

\* the single variant of a candidate that declares none: its price is
\* product.variants?.[0]?.price || '0', and variants[0] does not exist here
DefaultVariantPayload ==
    [title |-> Undefined,
     price |-> JsStr("0"),
     inventory_quantity |-> JsNum(0),
     inventory_management |-> "shopify",
     compare_at_price |-> JsUndefined,
     option1 |-> Undefined, option2 |-> Undefined, option3 |-> Undefined,
     sku |-> Undefined]

\* (mutant of HasVariants) an empty variants array counts as declared variants
HasVariantsDeclared(product) == product.variants.defined

\* if (product.variants && product.variants.length > 0)
HasVariants(product) == product.variants.defined /\ Len(product.variants.items) > 0

NewProductPayload(product, vendor) ==
    [title |-> product.title,
     body_html |-> "",
     vendor |-> vendor.name,
     status |-> IF Present(product.status) THEN product.status ELSE "active",
     images |-> IF product.images.defined THEN product.images.items ELSE <<>>,
     product_type |-> IF Present(product.product_type) THEN product.product_type ELSE Undefined,
     tags |-> CreateTags(product),
     options |-> IF HasVariants(product)
                 THEN [i \in 1..Len(product.options.items) |->
                        [name |-> product.options.items[i].name,
                         values |-> product.options.items[i].values,
                         position |-> IF Truthy(product.options.items[i].position)
                                      THEN product.options.items[i].position
                                      ELSE JsNum(i)]]
                 ELSE <<>>,
     variants |-> IF HasVariants(product)
                  THEN [i \in 1..Len(product.variants.items) |->
                         CreateVariantPayload(product.variants.items[i])]
                  ELSE <<DefaultVariantPayload>>]

(***************************************************************************)
(* The inputs of the model: vendors on record, candidate products, and     *)
(* the main-store catalogs a behaviour may start from.                     *)
(***************************************************************************)
NullVendor ==
    [id |-> "null", name |-> Undefined, shopifyShopName |-> Undefined,
     shopifyAccessToken |-> Undefined]

VendorsCollection ==
    {[id |-> "v1", name |-> "Acme", shopifyShopName |-> "acme-shop",
      shopifyAccessToken |-> "vendor-token"]}

VendorIds == {"v1", "v404"}

\* collection.findOne({ _id: new ObjectId(vendorId) }) on a connected
\* database; without a connection, or when the query throws, null
GetVendorById(vendorId, dbConnected) ==
    IF dbConnected /\ \E v \in VendorsCollection : v.id = vendorId
    THEN CHOOSE v \in VendorsCollection : v.id = vendorId
    ELSE NullVendor

Variant(title, sku, price, qty, option1) ==
    [title |-> title, sku |-> sku, price |-> price, compare_at_price |-> JsUndefined,
     inventory_quantity |-> qty, option1 |-> option1, option2 |-> Undefined,
     option3 |-> Undefined]

Option(name, values) == [name |-> name, values |-> values, position |-> JsUndefined]

Candidate(title, handle, tags, options, variants) ==
    [title |-> title, handle |-> handle, product_type |-> Undefined, tags |-> tags,
     status |-> Undefined, images |-> NoArray, options |-> options, variants |-> variants]

SizeOption == JsArray(<<Option("Size", <<"S", "M">>)>>)

CandidatePool ==
    { \* an ordinary product, one variant with a SKU and a numeric price
      Candidate("Widget", Undefined, TagArray(<<"a", "b">>), SizeOption,
                JsArray(<<Variant("S", "A1", JsNum(20), JsNum(5), "S")>>)),
      \* a supplied handle; one variant whose SKU is "__proto__", one without SKU
      Candidate("Gadget", "my-gadget", TagString("x,y"), SizeOption,
                JsArray(<<Variant("S", "__proto__", JsUndefined, JsNum(-1), "S"),
                          Variant("M", Undefined, JsStr("20"), JsUndefined, "M")>>)),
      \* no options and no variants declared at all
      Candidate("Widget", Undefined, NoTags, NoArray, NoArray),
      \* options and variants declared empty
      Candidate("Gadget", Undefined, NoTags, JsArray(<<>>), JsArray(<<>>)),
      \* titles that are property names of Object.prototype
      Candidate("constructor", Undefined, NoTags, SizeOption,
                JsArray(<<Variant("S", "A1", JsNum(20), JsNum(5), "S")>>)),
      Candidate("__proto__", Undefined, NoTags, SizeOption,
                JsArray(<<Variant("S", "A1", JsNum(20), JsNum(5), "S")>>)),
      \* a title with capitals, an apostrophe, spaces and punctuation
      Candidate("Men's  T-Shirt!!", Undefined, NoTags, SizeOption,
                JsArray(<<Variant("S", "A1", JsNum(0), JsNum(0), "S")>>)),
      \* no title: with a handle, and with neither title nor handle
      Candidate(Undefined, "no-title", NoTags, SizeOption,
                JsArray(<<Variant("S", "A1", JsNum(20), JsNum(5), "S")>>)),
      Candidate(Undefined, Undefined, NoTags, SizeOption,
                JsArray(<<Variant("S", "A1", JsNum(20), JsNum(5), "S")>>)) }

CandidateLists == UNION {[1..n -> CandidatePool] : n \in 0..MaxCandidates}

\* the body of a sync request: unparseable, or { vendorId, products }
MalformedBody == [parses |-> FALSE, vendorId |-> "v404", products |-> NoArray]

RequestBodies ==
    {MalformedBody}
    \cup {[parses |-> TRUE, vendorId |-> v, products |-> JsArray(l)] :
            v \in VendorIds, l \in CandidateLists}
    \cup {[parses |-> TRUE, vendorId |-> "v1", products |-> NoArray]}

\* a main-store product and its variants, as the remote API returns them
StoreVariant(id, sku) == [id |-> id, sku |-> sku]
StoreProduct(id, title, variants) == [id |-> id, title |-> title, variants |-> variants]

InitialCatalogs ==
    { <<>>,
      <<StoreProduct(1, "Widget", <<StoreVariant(11, "A1")>>)>>,
      <<StoreProduct(1, "Widget", <<StoreVariant(11, "A1")>>),
        StoreProduct(2, "Widget", <<StoreVariant(21, "B2"), StoreVariant(22, "A1")>>)>>,
      <<StoreProduct(1, "Gadget", <<StoreVariant(11, "__proto__"), StoreVariant(12, "")>>),
        StoreProduct(2, "constructor", <<StoreVariant(21, "A1"), StoreVariant(22, "A1")>>)>>,
      <<StoreProduct(1, "__proto__", <<StoreVariant(11, "A1")>>)>>,
      <<StoreProduct(1, "Widget", <<StoreVariant(11, "A1")>>),
        StoreProduct(2, "Gadget", <<StoreVariant(21, "B2")>>),
        StoreProduct(3, "Gizmo", <<StoreVariant(31, "C3")>>)>> }

(***************************************************************************)
(* State.                                                                  *)
(***************************************************************************)
VARIABLES
    store,        \* the main store's products, in listing order
    nextId,       \* the next id the main store hands out
    body,         \* body[k]: the request body of session k
    pc,           \* pc[k]: where the handler of session k is suspended
    vendor,       \* vendor[k]: what getVendorById resolved
    products,     \* products[k]: productsToSync (the handler sets handles in it)
    fetched,      \* fetched[k]: the products fetchAllProducts has collected
    productMap,   \* productMap[k]: mainStoreProductMap
    idx,          \* idx[k]: the position of the for...of loop
    existing,     \* existing[k]: existingProduct.product of the current candidate
    net,          \* net[k]: the remote request session k is awaiting
    sent,         \* sent[k]: every remote request session k has issued
    stream,       \* stream[k]: the chunks written with res.write
    ended,        \* ended[k]: how many times res.end() was called
    clientDone,   \* clientDone[k]: the browser's reader has seen done
    mongo,        \* the database as the process finds it (MONGODB_URI, the server)
    client,       \* db.js: let client
    db,           \* db.js: let db
    connecting,   \* the db.js call suspended at await client.connect()
    returned,     \* how the db.js call that completed last ended
    attempts,     \* how many times connectToDatabase has entered its try block
    orderBody,    \* /send-orders: the request body
    orderPc,      \* /send-orders: where the handler is suspended
    orderVendor,  \* /send-orders: const vendor
    orderPos,     \* /send-orders: the position of the for...of loop in orderIds
    successCount, \* /send-orders: let successCount
    errorCount,   \* /send-orders: let errorCount
    orderNet,     \* /send-orders: the remote request the handler is awaiting
    orderSent,    \* /send-orders: every remote request the handler has issued
    vendorDrafts, \* the draft orders the vendor's store holds (by main-store order id)
    response      \* /send-orders: the response, once sent

dbVars == <<mongo, client, db, connecting, returned, attempts>>

ordersVars == <<orderBody, orderPc, orderVendor, orderPos, successCount, errorCount,
                orderNet, orderSent, vendorDrafts, response>>

vars == <<store, nextId, body, pc, vendor, products, fetched, productMap, idx,
          existing, net, sent, stream, ended, clientDone, mongo, client, db,
          connecting, returned, attempts, orderBody, orderPc, orderVendor, orderPos,
          successCount, errorCount, orderNet, orderSent, vendorDrafts, response>>

syncVars == <<store, nextId, body, pc, vendor, products, fetched, productMap, idx,
              existing, net, sent, stream, ended, clientDone>>

(***************************************************************************)
(* The store a request goes to and the token it carries.                   *)
(***************************************************************************)
\* process.env.SHOPIFY_SHOP_NAME and process.env.SHOPIFY_ACCESS_TOKEN
SHOP == "main-shop"
ACCESS_TOKEN == "main-token"

\* the optional `credentials` argument of fetchFromShopify / fetchAllProducts
NoCredentials == [given |-> FALSE, shopName |-> "", accessToken |-> ""]
Credentials(shopName, accessToken) ==
    [given |-> TRUE, shopName |-> shopName, accessToken |-> accessToken]

StartsWith(str, prefix) ==
    Len(str) >= Len(prefix) /\ SubSeq(str, 1, Len(prefix)) = prefix

\* .replace(/^(https?:\/\/)/, '')
StripProtocol(str) ==
    IF StartsWith(str, "https://") THEN SubSeq(str, 9, Len(str))
    ELSE IF StartsWith(str, "http://") THEN SubSeq(str, 8, Len(str))
    ELSE str

\* .replace(/\/$/, '')
StripTrailingSlash(str) ==
    IF str # "" /\ SubSeq(str, Len(str), Len(str)) = "/"
    THEN SubSeq(str, 1, Len(str) - 1) ELSE str

RECURSIVE Includes(_, _)
Includes(str, c) == str # "" /\ (Head(str) = c \/ Includes(Tail(str), c))

\* the hostname of a GET: the given shop (a bare shop name gets
\* .myshopify.com), or the process's own shop when no credentials are given
Hostname(credentials) ==
    IF credentials.given
    THEN LET hostname == StripTrailingSlash(StripProtocol(credentials.shopName)) IN
         IF Includes(hostname, ".") THEN hostname ELSE hostname \o ".myshopify.com"
    ELSE SHOP \o ".myshopify.com"

\* the X-Shopify-Access-Token header of a GET
AccessToken(credentials) ==
    IF credentials.given THEN credentials.accessToken ELSE ACCESS_TOKEN

\* (mutant of SyncCredentials) the session reads with the vendor's credentials
SyncCredentialsOfVendor(v) == Credentials(v.shopifyShopName, v.shopifyAccessToken)

\* what the sync session passes as `credentials` to fetchAllProducts and
\* fetchFromShopify: nothing, whatever vendor it runs for
SyncCredentials(v) == NoCredentials

NoRequest ==
    [method |-> "NONE", target |-> JsUndefined, cursor |-> 0, payload |-> <<>>, i |-> 0,
     hostname |-> "", token |-> ""]
NoProduct == StoreProduct(0, Undefined, <<>>)

\* one line of the response stream; i is the candidate it is about (0: the session)
Line(kind, i, text) == [kind |-> kind, i |-> i, text |-> text]

\* the record of a request in sent[k]
Sent(req, result) ==
    [method |-> req.method, i |-> req.i, target |-> req.target, cursor |-> req.cursor,
     hostname |-> req.hostname, token |-> req.token,
     payloadId |-> IF req.method = "PUT" THEN req.payload[1].id ELSE JsUndefined,
     result |-> result, reply |-> 0]

(***************************************************************************)
(* db.js: the connection and the exported functions.                       *)
(***************************************************************************)
\* MONGODB_URI unset, set to something MongoClient rejects, or valid; the
\* server reachable and writable, or not (connect or the test write fails);
\* the commissionPercentage document of the settings collection
MongoEnvs ==
    [uri : {"unset", "malformed", "valid"}, server : {"up", "down"},
     commission : {"absent", "15"}]

\* module.exports of db.js
ExportedFunctions ==
    {"connectToDatabase", "getCommissionPercentage", "setCommissionPercentage",
     "getProductViewCount", "incrementProductViewCount", "getAllProductViewCounts",
     "createVendor", "getVendors", "getVendorById", "getProductsByVendor",
     "trackFacebookEvent", "getFacebookEvents", "getTopFacebookEventsByProduct",
     "getFacebookEventCounts", "createCroscrowVendor", "getCroscrowVendors",
     "getCroscrowVendorById", "updateCroscrowVendor", "getCommissionOrders",
     "saveCommissionOrder", "getCroscrowSettings", "setCroscrowSettings",
     "saveManualOrder", "getManualOrders"}

\* the functions whose catch block ends with throw error
Rethrowing ==
    {"createVendor", "createCroscrowVendor", "updateCroscrowVendor",
     "saveCommissionOrder", "saveManualOrder"}

NoCall == [fn |-> "none", outcome |-> "none", value |-> ""]
Returned(fn, value) == [fn |-> fn, outcome |-> "returned", value |-> value]
Threw(fn, message) == [fn |-> fn, outcome |-> "threw", value |-> message]

\* the value of the catch block of a function that does not rethrow, which
\* is also what it returns from if (!db)
Fallback(fn) ==
    CASE fn = "getCommissionPercentage" -> "10"
      [] fn = "getProductViewCount" -> "0"
      [] fn \in {"getAllProductViewCounts", "getFacebookEventCounts",
                 "getCroscrowSettings"} -> "{}"
      [] fn \in {"getVendors", "getProductsByVendor", "getFacebookEvents",
                 "getTopFacebookEventsByProduct", "getCroscrowVendors",
                 "getCommissionOrders", "getManualOrders"} -> "[]"
      [] fn \in {"getVendorById", "getCroscrowVendorById"} -> "null"
      [] OTHER -> "undefined"

\* const db = await connectToDatabase(); if (!db) ...
OnNoDatabase(fn) ==
    IF fn \in Rethrowing THEN Threw(fn, "Database not connected")
    ELSE Returned(fn, Fallback(fn))

\* the catch block, after a query on a connected database has thrown
OnQueryError(fn) ==
    IF fn \in Rethrowing THEN Threw(fn, "MongoNetworkError")
    ELSE Returned(fn, Fallback(fn))

\* the value returned after the query went through
OnQueryResult(fn, env) ==
    CASE fn = "getCommissionPercentage" ->
            Returned(fn, IF env.commission = "absent" THEN "10" ELSE env.commission)
      [] fn \in {"setCommissionPercentage", "incrementProductViewCount",
                 "trackFacebookEvent", "setCroscrowSettings"} -> Returned(fn, "undefined")
      [] fn \in Rethrowing -> Returned(fn, "result")
      [] OTHER -> Returned(fn, "documents")

\* how function fn ends once connectToDatabase has given it `handle`
\* ("null", "undefined" or "handle"); queryOk: the query did not throw
Completed(fn, handle, env, queryOk) ==
    IF fn = "connectToDatabase" THEN Returned(fn, handle)
    ELSE IF handle # "handle" THEN OnNoDatabase(fn)
    ELSE IF queryOk THEN OnQueryResult(fn, env)
    ELSE OnQueryError(fn)

\* the database state of a process that has not called db.js yet
DbIdle ==
    /\ client = "unset"
    /\ db = "undefined"
    /\ connecting = "none"
    /\ returned = NoCall
    /\ attempts = 0

\* a call of an exported function: up to await client.connect() when this
\* call is the one that connects, to its end otherwise
Call(fn) ==
    /\ IF client = "unset" /\ mongo.uri = "valid"
       THEN /\ attempts < MaxAttempts
            /\ attempts' = attempts + 1
            /\ client' = "set"
            /\ connecting' = fn
            /\ UNCHANGED <<db, returned>>
       ELSE LET handle == IF client = "unset" THEN "null" ELSE db
                \* new MongoClient(MONGODB_URI) throws inside the try block
                rejected == client = "unset" /\ mongo.uri = "malformed"
            IN
            /\ rejected => attempts < MaxAttempts
            /\ attempts' = IF rejected THEN attempts + 1 ELSE attempts
            /\ db' = IF rejected THEN "null" ELSE db
            /\ \E queryOk \in BOOLEAN : returned' = Completed(fn, handle, mongo, queryOk)
            /\ UNCHANGED <<client, connecting>>
    /\ UNCHANGED <<mongo, store, nextId, body, pc, vendor, products, fetched, productMap,
                   idx, existing, net, sent, stream, ended, clientDone>>
    /\ UNCHANGED ordersVars

\* client.connect() and the test write settled: db is the database, or null
ConnectSettled ==
    /\ connecting # "none"
    /\ db' = IF mongo.server = "up" THEN "handle" ELSE "null"
    /\ connecting' = "none"
    /\ \E queryOk \in BOOLEAN : returned' = Completed(connecting, db', mongo, queryOk)
    /\ UNCHANGED <<mongo, client, attempts, store, nextId, body, pc, vendor, products,
                   fetched, productMap, idx, existing, net, sent, stream, ended, clientDone>>
    /\ UNCHANGED ordersVars

(***************************************************************************)
(* /send-orders (server.js:1646-1718): the orders of the main store, the   *)
(* request bodies, and the handler before it has run.                      *)
(***************************************************************************)
LineItem(title, price, quantity, grams) ==
    [title |-> title, price |-> price, quantity |-> quantity, requires_shipping |-> TRUE,
     grams |-> grams]

NoCustomer == [present |-> FALSE, first_name |-> "", last_name |-> "", email |-> ""]
Customer(first_name, last_name, email) ==
    [present |-> TRUE, first_name |-> first_name, last_name |-> last_name, email |-> email]

NoAddress == [present |-> FALSE, city |-> ""]
Address(city) == [present |-> TRUE, city |-> city]

Order(id, order_number, customer, shipping_address, line_items) ==
    [id |-> id, order_number |-> order_number, customer |-> customer,
     shipping_address |-> shipping_address, line_items |-> line_items]

\* the orders of the main store: a complete one, one without a customer, one
\* without a shipping address
MainStoreOrders ==
    {Order(101, 1001, Customer("Ada", "Lovelace", "ada@example.com"), Address("London"),
           <<LineItem("Widget", "10.00", 2, JsNum(250)),
             LineItem("Gift card", "5.00", 1, JsUndefined)>>),
     Order(102, 1002, NoCustomer, Address("Paris"),
           <<LineItem("Widget", "10.00", 1, JsNum(250))>>),
     Order(103, 1003, Customer("Alan", "Turing", "alan@example.com"), NoAddress,
           <<LineItem("Gadget", "20.00", 1, JsNum(0))>>)}

\* the order ids a request may name; 404 is the id of no order
OrderIdPool == {101, 102, 103, 404}

RECURSIVE ListsUpTo(_, _)
ListsUpTo(S, n) ==
    IF n = 0 THEN {<<>>}
    ELSE ListsUpTo(S, n - 1) \cup {Append(l, x) : l \in {m \in ListsUpTo(S, n - 1) : Len(m) = n - 1}, x \in S}

OrderIdLists == ListsUpTo(OrderIdPool, MaxOrders)

MalformedOrderBody == [parses |-> FALSE, vendorId |-> Undefined, orderIds |-> NoArray]

OrderRequestBodies ==
    {MalformedOrderBody}
    \cup {[parses |-> TRUE, vendorId |-> v, orderIds |-> JsArray(l)] :
            v \in VendorIds \cup {Undefined}, l \in OrderIdLists}
    \cup {[parses |-> TRUE, vendorId |-> "v1", orderIds |-> NoArray]}

NoOrderRequest ==
    [method |-> "NONE", hostname |-> "", token |-> "", orderId |-> 0, pos |-> 0,
     payload |-> <<>>]

NoResponse == [status |-> 0, message |-> "", success |-> FALSE]

\* the /send-orders handler before the request's end event
OrdersIdle ==
    /\ orderPc = "idle"
    /\ orderVendor = NullVendor
    /\ orderPos = 0
    /\ successCount = 0
    /\ errorCount = 0
    /\ orderNet = NoOrderRequest
    /\ orderSent = <<>>
    /\ vendorDrafts = <<>>
    /\ response = NoResponse

Init ==
    /\ mongo = [uri |-> "valid", server |-> "up", commission |-> "absent"]
    /\ DbIdle
    /\ orderBody = MalformedOrderBody
    /\ OrdersIdle
    /\ store \in InitialCatalogs
    /\ nextId = 100
    /\ \E b \in RequestBodies : body = [k \in Sessions |-> b]
    /\ pc = [k \in Sessions |-> "idle"]
    /\ vendor = [k \in Sessions |-> NullVendor]
    /\ products = [k \in Sessions |-> NoArray]
    /\ fetched = [k \in Sessions |-> <<>>]
    /\ productMap = [k \in Sessions |-> EmptyObject]
    /\ idx = [k \in Sessions |-> 0]
    /\ existing = [k \in Sessions |-> NoProduct]
    /\ net = [k \in Sessions |-> NoRequest]
    /\ sent = [k \in Sessions |-> <<>>]
    /\ stream = [k \in Sessions |-> <<>>]
    /\ ended = [k \in Sessions |-> 0]
    /\ clientDone = [k \in Sessions |-> FALSE]

(***************************************************************************)
(* Building blocks of the handler.                                         *)
(***************************************************************************)
\* (mutant of Write) the lines are held back instead of being written
WriteDeferred(k, lines) == stream' = stream

\* res.write of some lines
Write(k, lines) == stream' = [stream EXCEPT ![k] = @ \o lines]

\* (mutant of ExchangeReply) the next request leaves without the pending one
\* having been awaited
ExchangeReplyUnsettled(k, result, id, reqs) ==
    /\ net' = [net EXCEPT ![k] = IF reqs = <<>> THEN NoRequest ELSE reqs[1]]
    /\ sent' = [sent EXCEPT ![k] = @ \o [j \in 1..Len(reqs) |-> Sent(reqs[j], "pending")]]

\* the awaited request (if any) is settled with `result` (and the id of the
\* product in a 2xx reply to a write), and the requests of `reqs` (none or
\* one) leave: the session awaits the answer
ExchangeReply(k, result, id, reqs) ==
    /\ net' = [net EXCEPT ![k] = IF reqs = <<>> THEN NoRequest ELSE reqs[1]]
    /\ sent' = [sent EXCEPT ![k] =
                  (IF net[k].method = "NONE" THEN @
                   ELSE [@ EXCEPT ![Len(@)].result = result, ![Len(@)].reply = id])
                  \o [j \in 1..Len(reqs) |-> Sent(reqs[j], "pending")]]

Exchange(k, result, reqs) == ExchangeReply(k, result, 0, reqs)

ListRequest(cursor, credentials) ==
    [method |-> "LIST", target |-> JsUndefined, cursor |-> cursor, payload |-> <<>>, i |-> 0,
     hostname |-> Hostname(credentials), token |-> AccessToken(credentials)]
GetRequest(i, id, credentials) ==
    [method |-> "GET", target |-> id, cursor |-> 0, payload |-> <<>>, i |-> i,
     hostname |-> Hostname(credentials), token |-> AccessToken(credentials)]
PutRequest(i, id, payload) ==
    [method |-> "PUT", target |-> id, cursor |-> 0, payload |-> <<payload>>, i |-> i,
     hostname |-> SHOP \o ".myshopify.com", token |-> ACCESS_TOKEN]
PostRequest(i, payload) ==
    [method |-> "POST", target |-> JsUndefined, cursor |-> 0, payload |-> <<payload>>, i |-> i,
     hostname |-> SHOP \o ".myshopify.com", token |-> ACCESS_TOKEN]

\* the session-level catch (server.js:1919-1923): a fatal banner, then res.end()
FatalCatch(k, message) ==
    /\ Write(k, <<Line("fatal", 0, message)>>)
    /\ ended' = [ended EXCEPT ![k] = @ + 1]
    /\ pc' = [pc EXCEPT ![k] = "ended"]

\* (mutant of ItemCatch) the per-item failure escapes to the session-level catch
ItemCatchAborts(k, message) ==
    /\ FatalCatch(k, message)
    /\ UNCHANGED idx

\* the per-item catch (server.js:1903-1915): a failure line, then the next
\* item.  The line is "-> FAILED to sync: " followed by e.message; the model
\* keeps the line and the candidate it is about, not the wording of e.message
ItemCatch(k, message) ==
    /\ Write(k, <<Line("failed", idx[k], "FAILED to sync")>>)
    /\ idx' = [idx EXCEPT ![k] = @ + 1]
    /\ pc' = [pc EXCEPT ![k] = "loop"]
    /\ UNCHANGED ended

\* (mutant of VendorMissing) the vendor check is left out
VendorMissingUnchecked(v) == FALSE

\* if (!vendor) throw ...
VendorMissing(v) == v = NullVendor

\* mainStoreProducts.products.reduce((map, product) => { map[product.title] = product.id; ... }, {})
RECURSIVE ProductMapFrom(_, _)
ProductMapFrom(list, map) ==
    IF list = <<>> THEN map
    ELSE ProductMapFrom(Tail(list), SetProperty(map, Head(list).title, JsNum(Head(list).id)))

MainStoreProductMap(list) == ProductMapFrom(list, EmptyObject)

\* (mutant of ExistingProductId) the title is looked up in the main store as
\* it is now, not in the session's snapshot
ExistingProductIdRechecked(map, product) ==
    GetProperty(MainStoreProductMap(store), product.title)

\* (mutant of ExistingProductId) a title the snapshot does not hold is looked
\* up among the products written since (their ids start at 100)
ExistingProductIdSeeingWrites(map, product) ==
    IF Truthy(GetProperty(map, product.title)) THEN GetProperty(map, product.title)
    ELSE GetProperty(MainStoreProductMap(SelectSeq(store, LAMBDA p : p.id >= 100)),
                     product.title)

\* (mutant of ExistingProductId) the lookup is keyed by handle
ExistingProductIdByHandle(map, product) == GetProperty(map, product.handle)

\* const existingProductId = mainStoreProductMap[product.title]
ExistingProductId(map, product) == GetProperty(map, product.title)

(***************************************************************************)
(* The main store, as the remote API answers.                              *)
(***************************************************************************)
Min(a, b) == IF a < b THEN a ELSE b

\* what a reply can be: a 2xx with a JSON body, a non-2xx status, a 2xx with
\* a body that does not parse, or a transport error
Failures == {"status", "parse", "network"}

IsProductId(catalog, id) == id.t = "number" /\ \E j \in 1..Len(catalog) : catalog[j].id = id.n

ProductAt(catalog, id) == CHOOSE j \in 1..Len(catalog) : catalog[j].id = id.n

\* JSON.stringify leaves out a property whose value is a function or undefined
OnTheWire(v) == IF v.t = "function" THEN JsUndefined ELSE v

\* the requests the main store can answer with a 2xx
Acceptable(catalog, req) ==
    CASE req.method = "LIST" -> TRUE
      [] req.method = "GET" -> IsProductId(catalog, req.target)
      [] req.method = "POST" -> Present(req.payload[1].title)
      [] req.method = "PUT" ->
            /\ IsProductId(catalog, req.target)
            /\ \A j \in 1..Len(req.payload[1].variants) :
                 LET id == OnTheWire(req.payload[1].variants[j].id)
                 IN id.t = "undefined"
                    \/ (id.t = "number"
                        /\ \E x \in 1..Len(catalog[ProductAt(catalog, req.target)].variants) :
                             catalog[ProductAt(catalog, req.target)].variants[x].id = id.n)
      [] OTHER -> FALSE

Outcomes(catalog, req) == Failures \cup (IF Acceptable(catalog, req) THEN {"ok"} ELSE {})

\* the page of the listing that starts after `cursor` products
Page(catalog, cursor) == SubSeq(catalog, cursor + 1, Min(cursor + PageSize, Len(catalog)))

\* the url of the listing page that starts after `cursor` products: a string
\* (n keeps the cursor the url's page_info stands for)
PageUrl(cursor) ==
    [t |-> "string", n |-> cursor, s |-> "https://shop/admin/api/2024-04/products.json?page_info"]

\* the parts of the Link header of a page, <url>; rel="previous" and
\* <url>; rel="next"; a listing of one page has no Link header
LinkHeader(catalog, cursor) ==
    (IF cursor > 0
     THEN <<[rel |-> "previous", url |-> PageUrl(IF cursor > PageSize THEN cursor - PageSize ELSE 0)]>>
     ELSE <<>>)
    \o (IF cursor + PageSize < Len(catalog)
        THEN <<[rel |-> "next", url |-> PageUrl(cursor + PageSize)]>>
        ELSE <<>>)

\* linkHeader.split(',').reduce((acc, link) => { ... acc[match[2]] = match[1]; ... }, {})
RECURSIVE ParseLinksFrom(_, _)
ParseLinksFrom(parts, acc) ==
    IF parts = <<>> THEN acc
    ELSE ParseLinksFrom(Tail(parts), SetProperty(acc, Head(parts).rel, Head(parts).url))

ParseLinks(header) == ParseLinksFrom(header, EmptyObject)

\* (mutant of HasNextLink) the Link header is not followed
HasNextLinkIgnored(catalog, cursor) == FALSE

\* if (linkHeader) { ... if (links.next) ... }
HasNextLink(catalog, cursor) ==
    /\ LinkHeader(catalog, cursor) # <<>>
    /\ Truthy(GetProperty(ParseLinks(LinkHeader(catalog, cursor)), "next"))

\* apiPath = nextUrl.pathname + nextUrl.search
NextPath(catalog, cursor) == GetProperty(ParseLinks(LinkHeader(catalog, cursor)), "next").n

\* the variants a product has after a write: a variant sent with an id keeps
\* it, every other variant gets a new id
WrittenVariants(variants, firstId) ==
    [j \in 1..Len(variants) |->
        StoreVariant(IF OnTheWire(variants[j].id).t = "number"
                     THEN variants[j].id.n ELSE firstId + j,
                     variants[j].sku)]

Created(payload, id) ==
    StoreProduct(id, payload.title,
                 WrittenVariants([j \in 1..Len(payload.variants) |->
                                    [id |-> JsUndefined, sku |-> payload.variants[j].sku]], id))

Updated(old, payload, firstId) ==
    StoreProduct(old.id, payload.title,
                 IF payload.variants = <<>> THEN old.variants
                 ELSE WrittenVariants(payload.variants, firstId))

\* whether the main store has carried out a write the helper rejects: not
\* when it answered with a non-2xx status; possibly when the helper gave up
\* on a 2xx reply it could not parse, or on a connection that broke after
\* the request was sent
MayHaveApplied(catalog, req, failure) ==
    IF failure # "status" /\ Acceptable(catalog, req) THEN BOOLEAN ELSE {FALSE}

\* the message of the Error a helper rejects with
ErrorMessage(method, failure) ==
    CASE failure = "status" -> "Shopify API " \o method \o "responded with status 500"
      [] failure = "parse" -> "Failed to parse Shopify " \o method \o "response."
      [] OTHER -> "socket hang up"

(***************************************************************************)
(* POST /vendors/sync-products (server.js:1751-1925), one action per       *)
(* stretch of the handler between two awaits.                              *)
(***************************************************************************)
\* req.on('end'): the response head, JSON.parse(body), getVendorById called
ReceiveRequest(k) ==
    /\ pc[k] = "idle"
    /\ IF body[k].parses
       THEN /\ products' = [products EXCEPT ![k] = body[k].products]
            /\ pc' = [pc EXCEPT ![k] = "vendor"]
            /\ UNCHANGED <<stream, ended>>
       ELSE /\ FatalCatch(k, "Unexpected token in JSON")
            /\ UNCHANGED products
    /\ UNCHANGED <<store, nextId, body, vendor, fetched, productMap, idx, existing,
                   net, sent, clientDone>>
    /\ UNCHANGED <<dbVars, ordersVars>>

\* getVendorById settled: the vendor check, the two banners, and the first
\* page request of fetchAllProducts
VendorResolved(k) ==
    /\ pc[k] = "vendor"
    /\ \E dbConnected \in BOOLEAN :
         LET v == GetVendorById(body[k].vendorId, dbConnected) IN
         IF VendorMissing(v)
         THEN /\ FatalCatch(k, "Vendor not found for syncing.")
              /\ UNCHANGED <<vendor, net, sent>>
         ELSE /\ vendor' = [vendor EXCEPT ![k] = v]
              /\ Write(k, <<Line("start", 0, v.name), Line("fetching", 0, "")>>)
              /\ Exchange(k, "ok", <<ListRequest(0, SyncCredentials(v))>>)
              /\ pc' = [pc EXCEPT ![k] = "catalog"]
              /\ UNCHANGED ended
    /\ UNCHANGED <<store, nextId, body, products, fetched, productMap, idx, existing,
                   clientDone>>
    /\ UNCHANGED <<dbVars, ordersVars>>

\* (mutant of CatalogFetchFailed) the failed page is swallowed and the
\* session goes on with the pages it has
CatalogFetchFailedSwallowed(k, message) ==
    /\ Exchange(k, "error", <<>>)
    /\ productMap' = [productMap EXCEPT ![k] = MainStoreProductMap(fetched[k])]
    /\ Write(k, <<Line("found", 0, NatToString(Len(fetched[k])))>>)
    /\ idx' = [idx EXCEPT ![k] = 1]
    /\ pc' = [pc EXCEPT ![k] = "loop"]
    /\ UNCHANGED <<fetched, ended>>

\* (mutant of CatalogFetchFailed) the failed page is requested again
CatalogFetchFailedRetried(k, message) ==
    /\ Exchange(k, "error", <<ListRequest(net[k].cursor, SyncCredentials(vendor[k]))>>)
    /\ UNCHANGED <<fetched, productMap, idx, pc, stream, ended>>

\* a page of the listing failed: fetchAllProducts rejects (the products it
\* had collected are lost with it), the handler's outer catch reports it
CatalogFetchFailed(k, message) ==
    /\ FatalCatch(k, message)
    /\ Exchange(k, "error", <<>>)
    /\ fetched' = [fetched EXCEPT ![k] = <<>>]
    /\ UNCHANGED <<productMap, idx>>

\* fetchAllProducts (server.js:223-295): one page arrived
CatalogPageReply(k) ==
    /\ pc[k] = "catalog"
    /\ \E outcome \in Outcomes(store, net[k]) :
         IF outcome = "ok"
         THEN LET all == fetched[k] \o Page(store, net[k].cursor) IN
              /\ fetched' = [fetched EXCEPT ![k] = all]
              /\ IF HasNextLink(store, net[k].cursor)
                 THEN /\ Exchange(k, "ok", <<ListRequest(NextPath(store, net[k].cursor),
                                                    SyncCredentials(vendor[k]))>>)
                      /\ UNCHANGED <<pc, productMap, idx, stream>>
                 ELSE /\ Exchange(k, "ok", <<>>)
                      /\ productMap' = [productMap EXCEPT ![k] = MainStoreProductMap(all)]
                      /\ Write(k, <<Line("found", 0, NatToString(Len(all)))>>)
                      /\ idx' = [idx EXCEPT ![k] = 1]
                      /\ pc' = [pc EXCEPT ![k] = "loop"]
              /\ UNCHANGED ended
         ELSE CatalogFetchFailed(k, ErrorMessage("", outcome))
    /\ UNCHANGED <<store, nextId, body, vendor, products, existing, clientDone>>
    /\ UNCHANGED <<dbVars, ordersVars>>

\* the head of the for...of loop (server.js:1777-1790, 1848-1900, 1917): the
\* end of the list, or one candidate up to its first remote request
NextCandidate(k) ==
    /\ pc[k] = "loop"
    /\ IF ~products[k].defined
       THEN /\ FatalCatch(k, "productsToSync is not iterable")
            /\ UNCHANGED <<products, net, sent>>
       ELSE IF idx[k] > Len(products[k].items)
       THEN /\ ended' = [ended EXCEPT ![k] = @ + 1]
            /\ pc' = [pc EXCEPT ![k] = "ended"]
            /\ UNCHANGED <<products, net, sent, stream>>
       ELSE LET product == products[k].items[idx[k]]
                syncing == Line("syncing", idx[k], product.title)
            IN
            IF ~Present(product.handle) /\ product.title = Undefined
            THEN \* product.title.toLowerCase() throws outside the per-item try
                 /\ Write(k, <<syncing, Line("fatal", 0,
                        "Cannot read properties of undefined (reading 'toLowerCase')")>>)
                 /\ ended' = [ended EXCEPT ![k] = @ + 1]
                 /\ pc' = [pc EXCEPT ![k] = "ended"]
                 /\ UNCHANGED <<products, net, sent>>
            ELSE /\ products' = [products EXCEPT ![k].items[idx[k]].handle =
                                   IF Present(@) THEN @ ELSE DeriveHandle(product.title)]
                 /\ IF Truthy(ExistingProductId(productMap[k], product))
                    THEN /\ Write(k, <<syncing, Line("found-existing", idx[k], "")>>)
                         /\ Exchange(k, "ok",
                               <<GetRequest(idx[k], ExistingProductId(productMap[k], product),
                                          SyncCredentials(vendor[k]))>>)
                         /\ pc' = [pc EXCEPT ![k] = "get"]
                    ELSE /\ Write(k, <<syncing, Line("not-found", idx[k], "")>>)
                         /\ Exchange(k, "ok",
                               <<PostRequest(idx[k], NewProductPayload(product, vendor[k]))>>)
                         /\ pc' = [pc EXCEPT ![k] = "post"]
                 /\ UNCHANGED ended
    /\ UNCHANGED <<store, nextId, body, vendor, fetched, productMap, idx, existing,
                   clientDone>>
    /\ UNCHANGED <<dbVars, ordersVars>>

\* (mutant of ProductFetchReply) a failed fetch of the existing product falls
\* back to creating the candidate
ProductFetchReplyFallingBackToCreate(k) ==
    /\ pc[k] = "get"
    /\ \E outcome \in Outcomes(store, net[k]) :
         LET product == products[k].items[idx[k]]
             found == store[ProductAt(store, net[k].target)]
         IN
         IF outcome # "ok"
         THEN /\ Exchange(k, "error",
                    <<PostRequest(idx[k], NewProductPayload(product, vendor[k]))>>)
              /\ pc' = [pc EXCEPT ![k] = "post"]
              /\ UNCHANGED <<existing, stream, idx, ended>>
         ELSE IF UpdatePayloadThrows(product)
         THEN /\ ItemCatch(k, "Cannot read properties of undefined (reading 'map')")
              /\ Exchange(k, "ok", <<>>)
              /\ existing' = [existing EXCEPT ![k] = found]
         ELSE /\ existing' = [existing EXCEPT ![k] = found]
              /\ Exchange(k, "ok",
                    <<PutRequest(idx[k], net[k].target,
                                 UpdatePayload(product, vendor[k], net[k].target, found))>>)
              /\ pc' = [pc EXCEPT ![k] = "put"]
              /\ UNCHANGED <<stream, idx, ended>>
    /\ UNCHANGED <<store, nextId, body, vendor, products, fetched, productMap, clientDone>>
    /\ UNCHANGED <<dbVars, ordersVars>>

\* fetchFromShopify(/products/{id}.json) settled (server.js:1792-1846): the
\* update payload is built and the PUT leaves
ProductFetchReply(k) ==
    /\ pc[k] = "get"
    /\ \E outcome \in Outcomes(store, net[k]) :
         LET product == products[k].items[idx[k]]
             found == store[ProductAt(store, net[k].target)]
         IN
         IF outcome # "ok"
         THEN /\ ItemCatch(k, ErrorMessage("", outcome))
              /\ Exchange(k, "error", <<>>)
              /\ UNCHANGED existing
         ELSE IF UpdatePayloadThrows(product)
         THEN /\ ItemCatch(k, "Cannot read properties of undefined (reading 'map')")
              /\ Exchange(k, "ok", <<>>)
              /\ existing' = [existing EXCEPT ![k] = found]
         ELSE /\ existing' = [existing EXCEPT ![k] = found]
              /\ Exchange(k, "ok",
                    <<PutRequest(idx[k], net[k].target,
                                 UpdatePayload(product, vendor[k], net[k].target, found))>>)
              /\ pc' = [pc EXCEPT ![k] = "put"]
              /\ UNCHANGED <<stream, idx, ended>>
    /\ UNCHANGED <<store, nextId, body, vendor, products, fetched, productMap, clientDone>>
    /\ UNCHANGED <<dbVars, ordersVars>>

\* putToShopify settled (server.js:1846-1847, 1903)
UpdateReply(k) ==
    /\ pc[k] = "put"
    /\ \E outcome \in Outcomes(store, net[k]) :
         IF outcome = "ok"
         THEN /\ store' = [store EXCEPT ![ProductAt(store, net[k].target)] =
                             Updated(@, net[k].payload[1], nextId)]
              /\ nextId' = nextId + Len(net[k].payload[1].variants) + 1
              /\ Write(k, <<Line("updated", idx[k], "")>>)
              /\ idx' = [idx EXCEPT ![k] = @ + 1]
              /\ pc' = [pc EXCEPT ![k] = "loop"]
              /\ ExchangeReply(k, "ok", net[k].target.n, <<>>)
              /\ UNCHANGED ended
         ELSE \E applied \in MayHaveApplied(store, net[k], outcome) :
              /\ ItemCatch(k, ErrorMessage("PUT ", outcome))
              /\ Exchange(k, "error", <<>>)
              /\ IF applied
                 THEN /\ store' = [store EXCEPT ![ProductAt(store, net[k].target)] =
                                      Updated(@, net[k].payload[1], nextId)]
                      /\ nextId' = nextId + Len(net[k].payload[1].variants) + 1
                 ELSE UNCHANGED <<store, nextId>>
    /\ UNCHANGED <<body, vendor, products, fetched, productMap, existing, clientDone>>
    /\ UNCHANGED <<dbVars, ordersVars>>

\* postToShopify settled (server.js:1900-1901, 1903)
CreateReply(k) ==
    /\ pc[k] = "post"
    /\ \E outcome \in Outcomes(store, net[k]) :
         IF outcome = "ok"
         THEN /\ store' = Append(store, Created(net[k].payload[1], nextId))
              /\ nextId' = nextId + Len(net[k].payload[1].variants) + 1
              /\ Write(k, <<Line("created", idx[k], "")>>)
              /\ idx' = [idx EXCEPT ![k] = @ + 1]
              /\ pc' = [pc EXCEPT ![k] = "loop"]
              /\ ExchangeReply(k, "ok", nextId, <<>>)
              /\ UNCHANGED ended
         ELSE \E applied \in MayHaveApplied(store, net[k], outcome) :
              /\ ItemCatch(k, ErrorMessage("POST ", outcome))
              /\ Exchange(k, "error", <<>>)
              /\ IF applied
                 THEN /\ store' = Append(store, Created(net[k].payload[1], nextId))
                      /\ nextId' = nextId + Len(net[k].payload[1].variants) + 1
                 ELSE UNCHANGED <<store, nextId>>
    /\ UNCHANGED <<body, vendor, products, fetched, productMap, existing, clientDone>>
    /\ UNCHANGED <<dbVars, ordersVars>>

(***************************************************************************)
(* The browser (public/js/vendors.js:54-65): every chunk read is appended  *)
(* to the log; when the reader reports done, "Sync complete!" is appended. *)
(***************************************************************************)
ReaderDone(k) ==
    /\ ended[k] > 0
    /\ ~clientDone[k]
    /\ clientDone' = [clientDone EXCEPT ![k] = TRUE]
    /\ UNCHANGED <<store, nextId, body, pc, vendor, products, fetched, productMap, idx,
                   existing, net, sent, stream, ended>>
    /\ UNCHANGED <<dbVars, ordersVars>>

\* logsContainer.textContent
ClientLog(k) ==
    stream[k] \o (IF clientDone[k] THEN <<Line("sync-complete", 0, "Sync complete!")>> ELSE <<>>)

\* one step of session k
Run(k) ==
    \/ ReceiveRequest(k)
    \/ VendorResolved(k)
    \/ CatalogPageReply(k)
    \/ NextCandidate(k)
    \/ ProductFetchReply(k)
    \/ UpdateReply(k)
    \/ CreateReply(k)
    \/ ReaderDone(k)

(***************************************************************************)
(* Spec: one sync session against the main store.                          *)
(***************************************************************************)
Next == Run(1)

Spec == Init /\ [][Next]_vars

(***************************************************************************)
(* SpecRepeat: the operator runs the same sync a second time once the      *)
(* first has finished (the button stays disabled until then).              *)
(***************************************************************************)
NextRepeat ==
    \/ Run(1)
    \/ clientDone[1] /\ Run(2)

SpecRepeat == Init /\ [][NextRepeat]_vars

(***************************************************************************)
(* SpecConcurrent: two sync requests with the same body are served at the  *)
(* same time (two operators, or two browser tabs); the event loop          *)
(* interleaves the two handlers at their awaits.                           *)
(***************************************************************************)
\* the candidates sent at the same time: an ordinary title, variants declared
ConcurrentCandidates ==
    {c \in CandidatePool :
        /\ Present(c.title)
        /\ c.title \notin ObjectPrototypeKeys \cup {"__proto__"}
        /\ HasVariants(c)}

InitConcurrent ==
    /\ Init
    /\ Len(body[1].products.items) <= MaxConcurrentCandidates
    /\ \A i \in 1..Len(body[1].products.items) :
         body[1].products.items[i] \in ConcurrentCandidates

NextConcurrent == \E k \in Sessions : Run(k)

SpecConcurrent == InitConcurrent /\ [][NextConcurrent]_vars

(***************************************************************************)
(* SpecDb: the routes of server.js call the exported functions of db.js,   *)
(* in any order, against a database that may be unavailable.               *)
(***************************************************************************)
InitDb ==
    /\ mongo \in MongoEnvs
    /\ DbIdle
    /\ orderBody = MalformedOrderBody
    /\ OrdersIdle
    /\ store = <<>>
    /\ nextId = 100
    /\ body = [k \in Sessions |-> MalformedBody]
    /\ pc = [k \in Sessions |-> "idle"]
    /\ vendor = [k \in Sessions |-> NullVendor]
    /\ products = [k \in Sessions |-> NoArray]
    /\ fetched = [k \in Sessions |-> <<>>]
    /\ productMap = [k \in Sessions |-> EmptyObject]
    /\ idx = [k \in Sessions |-> 0]
    /\ existing = [k \in Sessions |-> NoProduct]
    /\ net = [k \in Sessions |-> NoRequest]
    /\ sent = [k \in Sessions |-> <<>>]
    /\ stream = [k \in Sessions |-> <<>>]
    /\ ended = [k \in Sessions |-> 0]
    /\ clientDone = [k \in Sessions |-> FALSE]

NextDb ==
    \/ \E fn \in ExportedFunctions : Call(fn)
    \/ ConnectSettled

SpecDb == InitDb /\ [][NextDb]_vars

(***************************************************************************)
(* SpecOrders: one POST /send-orders request (server.js:1646-1718).        *)
(***************************************************************************)
\* the awaited request (if any) is settled with `result` and the requests
\* of `reqs` (none or one) leave
OrderExchange(result, reqs) ==
    /\ orderNet' = IF reqs = <<>> THEN NoOrderRequest ELSE reqs[1]
    /\ orderSent' =
          (IF orderNet.method = "NONE" THEN orderSent
           ELSE [orderSent EXCEPT ![Len(orderSent)].result = result])
          \o [j \in 1..Len(reqs) |->
                [method |-> reqs[j].method, hostname |-> reqs[j].hostname,
                 token |-> reqs[j].token, orderId |-> reqs[j].orderId,
                 pos |-> reqs[j].pos, result |-> "pending"]]

\* fetchFromShopify(`/admin/api/2024-04/orders/${orderId}.json`)
OrderFetchRequest(pos, orderId) ==
    [method |-> "GET", hostname |-> Hostname(NoCredentials),
     token |-> AccessToken(NoCredentials), orderId |-> orderId, pos |-> pos,
     payload |-> <<>>]

\* line_items: order.line_items.map(item => ({ ..., grams: item.grams || 0 }))
DraftLineItems(line_items) ==
    [j \in 1..Len(line_items) |->
        [title |-> line_items[j].title, price |-> line_items[j].price,
         quantity |-> line_items[j].quantity,
         requires_shipping |-> line_items[j].requires_shipping,
         grams |-> IF Truthy(line_items[j].grams) THEN line_items[j].grams ELSE JsNum(0)]]

DraftOrderPayload(order) ==
    [line_items |-> DraftLineItems(order.line_items),
     customer |-> [first_name |-> order.customer.first_name,
                   last_name |-> order.customer.last_name,
                   email |-> order.customer.email],
     shipping_address |-> order.shipping_address,
     use_customer_default_address |-> FALSE]

\* postToVendorShopify(vendor, '/admin/api/2024-04/draft_orders.json', payload)
DraftOrderRequest(pos, orderId, v, payload) ==
    [method |-> "POST",
     hostname |-> Hostname(Credentials(v.shopifyShopName, v.shopifyAccessToken)),
     token |-> v.shopifyAccessToken, orderId |-> orderId, pos |-> pos,
     payload |-> <<payload>>]

\* res.writeHead(status); res.end(JSON.stringify({ message, success }))
Respond(status, message, success) ==
    /\ response' = [status |-> status, message |-> message, success |-> success]
    /\ orderPc' = "done"

\* the outer catch: a 500 with the error's message
OrdersFatalCatch(message) ==
    /\ Respond(500, "Failed to send orders: " \o message, FALSE)
    /\ UNCHANGED <<orderVendor, orderPos, successCount, errorCount, orderNet, orderSent,
                   vendorDrafts>>

SentMessage(sc, ec) ==
    "Successfully sent " \o NatToString(sc) \o " orders. Failed to send "
    \o NatToString(ec) \o " orders."

\* (mutant of OrderCatch) a failed order ends the loop
OrderCatchStops ==
    /\ errorCount' = errorCount + 1
    /\ orderPos' = Len(orderBody.orderIds.items) + 1
    /\ orderPc' = "loop"
    /\ UNCHANGED successCount

\* the catch inside the loop: the failure is counted, the loop goes on
OrderCatch ==
    /\ errorCount' = errorCount + 1
    /\ orderPos' = orderPos + 1
    /\ orderPc' = "loop"
    /\ UNCHANGED successCount

\* the request's end event: the body is parsed and checked
SendOrdersReceived ==
    /\ orderPc = "idle"
    /\ IF ~orderBody.parses
       THEN OrdersFatalCatch("Unexpected token")
       ELSE IF \/ ~orderBody.orderIds.defined
               \/ ~Present(orderBody.vendorId)
               \/ Len(orderBody.orderIds.items) = 0
       THEN OrdersFatalCatch("Missing order IDs or vendor ID.")
       ELSE /\ orderPc' = "vendor"
            /\ UNCHANGED <<orderVendor, orderPos, successCount, errorCount, orderNet,
                           orderSent, vendorDrafts, response>>
    /\ UNCHANGED <<orderBody, syncVars, dbVars>>

\* getVendorById settled
SendOrdersVendorResolved ==
    /\ orderPc = "vendor"
    /\ \E dbConnected \in BOOLEAN :
         LET v == GetVendorById(orderBody.vendorId, dbConnected) IN
         IF v = NullVendor
         THEN OrdersFatalCatch("Vendor not found.")
         ELSE /\ orderVendor' = v
              /\ successCount' = 0
              /\ errorCount' = 0
              /\ orderPos' = 1
              /\ orderPc' = "loop"
              /\ UNCHANGED <<orderNet, orderSent, vendorDrafts, response>>
    /\ UNCHANGED <<orderBody, syncVars, dbVars>>

\* the head of for (const orderId of orderIds): the next order is fetched
\* from the main store, or the loop is over and the response is sent
NextOrder ==
    /\ orderPc = "loop"
    /\ IF orderPos > Len(orderBody.orderIds.items)
       THEN /\ Respond(200, SentMessage(successCount, errorCount), errorCount = 0)
            /\ UNCHANGED <<orderNet, orderSent>>
       ELSE /\ OrderExchange("ok",
                  <<OrderFetchRequest(orderPos, orderBody.orderIds.items[orderPos])>>)
            /\ orderPc' = "fetch"
            /\ UNCHANGED response
    /\ UNCHANGED <<orderVendor, orderPos, successCount, errorCount, vendorDrafts>>
    /\ UNCHANGED <<orderBody, syncVars, dbVars>>

\* fetchFromShopify(/orders/{id}.json) settled: the order is checked, the
\* draft order is built and posted to the vendor's store
OrderFetchReply ==
    /\ orderPc = "fetch"
    /\ \E outcome \in Failures \cup
                       (IF \E o \in MainStoreOrders : o.id = orderNet.orderId
                        THEN {"ok"} ELSE {}) :
         IF outcome # "ok"
         THEN /\ OrderCatch
              /\ OrderExchange("error", <<>>)
         ELSE LET order == CHOOSE o \in MainStoreOrders : o.id = orderNet.orderId IN
              IF ~order.customer.present \/ ~order.shipping_address.present
              THEN /\ OrderCatch
                   /\ OrderExchange("ok", <<>>)
              ELSE /\ OrderExchange("ok",
                         <<DraftOrderRequest(orderPos, order.id, orderVendor,
                                             DraftOrderPayload(order))>>)
                   /\ orderPc' = "post"
                   /\ UNCHANGED <<orderPos, successCount, errorCount>>
    /\ UNCHANGED <<orderVendor, vendorDrafts, response>>
    /\ UNCHANGED <<orderBody, syncVars, dbVars>>

\* postToVendorShopify settled
DraftOrderReply ==
    /\ orderPc = "post"
    /\ \E outcome \in Failures \cup {"ok"} :
         IF outcome = "ok"
         THEN /\ vendorDrafts' = Append(vendorDrafts, orderNet.orderId)
              /\ successCount' = successCount + 1
              /\ orderPos' = orderPos + 1
              /\ orderPc' = "loop"
              /\ OrderExchange("ok", <<>>)
              /\ UNCHANGED errorCount
         ELSE \E applied \in (IF outcome = "status" THEN {FALSE} ELSE BOOLEAN) :
              /\ vendorDrafts' = IF applied THEN Append(vendorDrafts, orderNet.orderId)
                                 ELSE vendorDrafts
              /\ OrderCatch
              /\ OrderExchange("error", <<>>)
    /\ UNCHANGED <<orderVendor, response>>
    /\ UNCHANGED <<orderBody, syncVars, dbVars>>

InitOrders ==
    /\ mongo = [uri |-> "valid", server |-> "up", commission |-> "absent"]
    /\ DbIdle
    /\ orderBody \in OrderRequestBodies
    /\ OrdersIdle
    /\ store = <<>>
    /\ nextId = 100
    /\ body = [k \in Sessions |-> MalformedBody]
    /\ pc = [k \in Sessions |-> "idle"]
    /\ vendor = [k \in Sessions |-> NullVendor]
    /\ products = [k \in Sessions |-> NoArray]
    /\ fetched = [k \in Sessions |-> <<>>]
    /\ productMap = [k \in Sessions |-> EmptyObject]
    /\ idx = [k \in Sessions |-> 0]
    /\ existing = [k \in Sessions |-> NoProduct]
    /\ net = [k \in Sessions |-> NoRequest]
    /\ sent = [k \in Sessions |-> <<>>]
    /\ stream = [k \in Sessions |-> <<>>]
    /\ ended = [k \in Sessions |-> 0]
    /\ clientDone = [k \in Sessions |-> FALSE]

NextOrders ==
    \/ SendOrdersReceived
    \/ SendOrdersVendorResolved
    \/ NextOrder
    \/ OrderFetchReply
    \/ DraftOrderReply

SpecOrders == InitOrders /\ [][NextOrders]_vars

(***************************************************************************)
(* Vocabulary of the properties.                                           *)
(***************************************************************************)
\* the candidate list session k was sent
Candidates(k) == body[k].products.items

\* session k is past vendor resolution and the initial catalog fetch
PastCatalogFetch(k) == idx[k] >= 1

\* the indices of a sequence that satisfy a test
Where(seq, Test(_)) == {j \in 1..Len(seq) : Test(seq[j])}

\* the lines of session k's stream about candidate i, of the given kinds
LinesAbout(k, i, kinds) == {j \in 1..Len(stream[k]) : stream[k][j].i = i /\ stream[k][j].kind \in kinds}

\* the requests session k issued for candidate i, of the given methods
RequestsFor(k, i, methods) == {j \in 1..Len(sent[k]) : sent[k][j].i = i /\ sent[k][j].method \in methods}

\* the titles of the catalog session k fetched at its start
SnapshotTitles(k) == {fetched[k][j].title : j \in 1..Len(fetched[k])}

\* the id of the last product of the snapshot with the given title
LastIdWithTitle(k, title) ==
    fetched[k][CHOOSE j \in 1..Len(fetched[k]) :
                 /\ fetched[k][j].title = title
                 /\ \A x \in (j + 1)..Len(fetched[k]) : fetched[k][x].title # title].id

(***************************************************************************)
(* C1: when a remote call made for candidate i (product fetch, create or   *)
(* update) fails, the session writes a failure line about i and goes on    *)
(* with candidate i+1: the stream is not ended and no fatal banner is      *)
(* written by that failure.                                                *)
(***************************************************************************)
RemoteCallFails(k) ==
    /\ net[k].method \in {"GET", "PUT", "POST"}
    /\ Len(sent'[k]) = Len(sent[k])
    /\ sent'[k][Len(sent[k])].result = "error"

C1_FailureDoesNotStopTheLoop ==
    [][\A k \in Sessions :
         RemoteCallFails(k) =>
            /\ Len(stream'[k]) = Len(stream[k]) + 1
            /\ stream'[k][Len(stream'[k])].kind = "failed"
            /\ stream'[k][Len(stream'[k])].i = net[k].i
            /\ SubSeq(stream'[k], 1, Len(stream[k])) = stream[k]
            /\ pc'[k] = "loop"
            /\ idx'[k] = net[k].i + 1
            /\ ended'[k] = 0]_vars

\* a candidate's remote call failed and a later candidate was synced
C1_Witness ==
    \E k \in Sessions : \E a, b \in 1..Len(sent[k]) :
        /\ sent[k][a].i >= 1 /\ sent[k][a].result = "error"
        /\ sent[k][b].i > sent[k][a].i
        /\ sent[k][b].method \in {"PUT", "POST"} /\ sent[k][b].result = "ok"
        /\ LinesAbout(k, sent[k][a].i, {"failed"}) # {}
        /\ LinesAbout(k, sent[k][b].i, {"created", "updated"}) # {}

(***************************************************************************)
(* C2: for a candidate list made of one item that is sure to fail (it has  *)
(* no title) and N items that are sure to succeed, in any order, the       *)
(* finished session has made exactly N successful remote writes and its    *)
(* stream holds exactly N success lines and one failure line.              *)
(***************************************************************************)
SureToFail(c) == c.title = Undefined

\* a well-formed candidate with an ordinary title
WellFormed(c) ==
    /\ Present(c.title)
    /\ c.title \notin ObjectPrototypeKeys \cup {"__proto__"}
    /\ c.options.defined
    /\ c.variants.defined

\* one item sure to fail, the others well formed, and the remote API
\* rejected nothing it was sent for the others
OneSureFailure(k) ==
    /\ Cardinality(Where(Candidates(k), SureToFail)) = 1
    /\ \A i \in 1..Len(Candidates(k)) : SureToFail(Candidates(k)[i]) \/ WellFormed(Candidates(k)[i])
    /\ \A j \in 1..Len(sent[k]) :
         sent[k][j].result = "error" => sent[k][j].i >= 1 /\ SureToFail(Candidates(k)[sent[k][j].i])

SuccessfulWrites(k) ==
    {j \in 1..Len(sent[k]) : sent[k][j].method \in {"PUT", "POST"} /\ sent[k][j].result = "ok"}

C2_OneFailureNSuccesses ==
    \A k \in Sessions :
        (pc[k] = "ended" /\ PastCatalogFetch(k) /\ OneSureFailure(k)) =>
            LET n == Len(Candidates(k)) - 1 IN
            /\ Cardinality(SuccessfulWrites(k)) = n
            /\ Cardinality({j \in 1..Len(stream[k]) : stream[k][j].kind \in {"created", "updated"}}) = n
            /\ Cardinality({j \in 1..Len(stream[k]) : stream[k][j].kind = "failed"}) = 1

(***************************************************************************)
(* C3: in a finished session that got past vendor resolution and the       *)
(* initial catalog fetch, every input product has exactly one outcome line *)
(* (created, updated or failed) in the stream.                             *)
(***************************************************************************)
C3_OneOutcomePerProduct ==
    \A k \in Sessions :
        (pc[k] = "ended" /\ PastCatalogFetch(k)) =>
            \A i \in 1..Len(Candidates(k)) :
                Cardinality(LinesAbout(k, i, {"created", "updated", "failed"})) = 1

(***************************************************************************)
(* C4: once the caller has read the stream to its end, the stream was      *)
(* ended exactly once and the caller's log holds exactly one terminal      *)
(* banner, as its last line: "Sync complete!" when the candidate list was  *)
(* exhausted, a fatal banner otherwise, never both.                        *)
(***************************************************************************)
BannersSeen(k, kind) == {j \in 1..Len(ClientLog(k)) : ClientLog(k)[j].kind = kind}

ListExhausted(k) == products[k].defined /\ idx[k] > Len(products[k].items)

C4_OneTerminalBanner ==
    \A k \in Sessions :
        clientDone[k] =>
            /\ ended[k] = 1
            /\ ClientLog(k)[Len(ClientLog(k))].kind \in {"sync-complete", "fatal"}
            /\ IF ListExhausted(k)
               THEN BannersSeen(k, "fatal") = {} /\ Cardinality(BannersSeen(k, "sync-complete")) = 1
               ELSE BannersSeen(k, "sync-complete") = {} /\ Cardinality(BannersSeen(k, "fatal")) = 1

(***************************************************************************)
(* C5: when getVendorById returns null the session writes the fatal banner *)
(* and ends, having issued no remote request and processed no candidate.   *)
(***************************************************************************)
VendorUnresolved(k) == body[k].parses /\ pc[k] \notin {"idle", "vendor"} /\ vendor[k] = NullVendor

C5_UnresolvedVendorIsFatal ==
    \A k \in Sessions :
        VendorUnresolved(k) =>
            /\ pc[k] = "ended"
            /\ ended[k] = 1
            /\ stream[k] = <<Line("fatal", 0, "Vendor not found for syncing.")>>
            /\ sent[k] = <<>>
            /\ net[k] = NoRequest
            /\ idx[k] = 0

\* an unresolvable vendor id sent with a non-empty candidate list
C5_Witness ==
    \E k \in Sessions :
        /\ VendorUnresolved(k)
        /\ pc[k] = "ended"
        /\ body[k].products.defined /\ Len(Candidates(k)) > 0
        /\ stream[k][Len(stream[k])].kind = "fatal"

(***************************************************************************)
(* C6: when a page of the initial catalog listing fails, the session       *)
(* writes the fatal banner as its last line, ends the stream, and issues   *)
(* no create, update or single-product fetch.                              *)
(***************************************************************************)
CatalogPageFailed(k) ==
    \E j \in 1..Len(sent[k]) : sent[k][j].method = "LIST" /\ sent[k][j].result = "error"

C6_CatalogFailureIsFatal ==
    \A k \in Sessions :
        CatalogPageFailed(k) =>
            /\ pc[k] = "ended"
            /\ ended[k] = 1
            /\ stream[k][Len(stream[k])].kind = "fatal"
            /\ LinesAbout(k, 0, {"fatal"}) = {Len(stream[k])}
            /\ \A j \in 1..Len(sent[k]) : sent[k][j].method = "LIST"
            /\ net[k] = NoRequest
            /\ idx[k] = 0

\* the second page of the listing failed, with candidates waiting
C6_Witness ==
    \E k \in Sessions :
        /\ Len(sent[k]) >= 2
        /\ sent[k][1].result = "ok"
        /\ sent[k][Len(sent[k])].method = "LIST" /\ sent[k][Len(sent[k])].result = "error"
        /\ Len(Candidates(k)) > 0
        /\ pc[k] = "ended"

(***************************************************************************)
(* C7 (as stated): for every candidate the loop has dealt with whose title *)
(* is the title of a product of the snapshot, the session has issued a PUT *)
(* addressed to the id of a snapshot product with that title, carrying     *)
(* that id in the payload, and no POST.  Stated here for well-formed       *)
(* candidates only (an ordinary title, options and variants declared), the *)
(* candidates for which nothing but the remote API can fail.               *)
(***************************************************************************)
TitleInSnapshot(k, i) ==
    /\ Candidates(k)[i].title # Undefined
    /\ Candidates(k)[i].title \in SnapshotTitles(k)

LookupValue(k, title) ==
    IF title = "__proto__" THEN JsObjectPrototype ELSE JsNum(LastIdWithTitle(k, title))

C8_UnknownTitleIsCreated ==
    \A k \in Sessions :
        PastCatalogFetch(k) =>
            \A i \in 1..Len(Candidates(k)) :
                Candidates(k)[i].title \notin SnapshotTitles(k) =>
                    /\ RequestsFor(k, i, {"GET", "PUT"}) = {}
                    /\ idx[k] > i => Cardinality(RequestsFor(k, i, {"POST"})) = 1

(***************************************************************************)
(* C9: when the same sync is run twice in sequence and every remote call   *)
(* of both runs succeeds, the second run issues no POST, issues a PUT for  *)
(* every product the first run created, and leaves the main store with as  *)
(* many products as the first run left.                                    *)
(***************************************************************************)
BothRunsSucceeded ==
    /\ \A k \in Sessions : pc[k] = "ended" /\ PastCatalogFetch(k)
    /\ \A k \in Sessions : \A j \in 1..Len(sent[k]) : sent[k][j].result = "ok"

C9_SecondRunOnlyUpdates ==
    BothRunsSucceeded =>
        /\ \A j \in 1..Len(sent[2]) : sent[2][j].method # "POST"
        /\ \A j \in 1..Len(sent[1]) :
             sent[1][j].method = "POST" =>
                \E x \in 1..Len(sent[2]) :
                    sent[2][x].method = "PUT" /\ sent[2][x].target = JsNum(sent[1][j].reply)
        /\ Len(store) = Len(fetched[2])

(***************************************************************************)
(* C10: in an update payload, a candidate variant whose SKU is the SKU of  *)
(* a variant of the existing product is emitted with that variant's id and *)
(* the candidate's price as a string; a candidate variant with no SKU, or  *)
(* with a SKU no existing variant has, is emitted without an id.           *)
(***************************************************************************)
SkuMatches(k, v) ==
    {x \in 1..Len(existing[k].variants) : Present(v.sku) /\ existing[k].variants[x].sku = v.sku}

C10_VariantIdsBySku ==
    \A k \in Sessions :
        net[k].method = "PUT" =>
            \A j \in 1..Len(net[k].payload[1].variants) :
                LET v == products[k].items[net[k].i].variants.items[j]
                    emitted == net[k].payload[1].variants[j]
                IN IF SkuMatches(k, v) # {}
                   THEN /\ \E x \in SkuMatches(k, v) :
                             OnTheWire(emitted.id) = JsNum(existing[k].variants[x].id)
                        /\ emitted.price.t = "string"
                        /\ Truthy(v.price) => emitted.price.s = JsString(v.price)
                   ELSE OnTheWire(emitted.id) = JsUndefined

(***************************************************************************)
(* C11: a candidate that declares zero variants (variants absent or empty) *)
(* and is routed to create is sent with options = [] and exactly one       *)
(* variant, whose price is "0" and whose inventory_quantity is 0.          *)
(***************************************************************************)
DeclaresNoVariants(c) == ~c.variants.defined \/ c.variants.items = <<>>

C11_DefaultVariantOnCreate ==
    \A k \in Sessions :
        (net[k].method = "POST" /\ DeclaresNoVariants(products[k].items[net[k].i])) =>
            /\ net[k].payload[1].options = <<>>
            /\ Len(net[k].payload[1].variants) = 1
            /\ net[k].payload[1].variants[1].price = JsStr("0")
            /\ net[k].payload[1].variants[1].inventory_quantity = JsNum(0)

\* both shapes were sent to create: variants absent, and variants empty
C11_Witness ==
    \E k \in Sessions :
        /\ net[k].method = "POST"
        /\ Len(products[k].items) = 2
        /\ ~products[k].items[1].variants.defined
        /\ products[k].items[2].variants.defined
        /\ products[k].items[2].variants.items = <<>>
        /\ net[k].i = 2
        /\ \E j \in RequestsFor(k, 1, {"POST"}) : sent[k][j].result = "ok"

(***************************************************************************)
(* C12: every product payload the session sends, on the create path and on *)
(* the update path, carries at least one variant.                          *)
(***************************************************************************)
C12_PayloadHasVariant ==
    \A k \in Sessions :
        net[k].method \in {"POST", "PUT"} => Len(net[k].payload[1].variants) >= 1

(***************************************************************************)
(* C13: for a listing of n >= 1 pages, fetchAllProducts issues exactly n   *)
(* requests, one per page in link order, and returns the concatenation of  *)
(* the n pages in page order (the whole listing); once a page without a    *)
(* next link has arrived it issues no further listing request.             *)
(***************************************************************************)
NumPages(len) == IF len = 0 THEN 1 ELSE (len + PageSize - 1) \div PageSize

C13_AllPagesFetchedOnce ==
    [][\A k \in Sessions :
         /\ (idx[k] = 0 /\ idx'[k] = 1) =>
               /\ fetched'[k] = store
               /\ Len(sent'[k]) = NumPages(Len(store))
               /\ \A j \in 1..Len(sent'[k]) :
                    /\ sent'[k][j].method = "LIST"
                    /\ sent'[k][j].cursor = (j - 1) * PageSize
                    /\ sent'[k][j].result = "ok"
               /\ net'[k] = NoRequest
         /\ idx[k] >= 1 =>
               /\ fetched'[k] = fetched[k]
               /\ RequestsFor(k, 0, {"LIST"})' = RequestsFor(k, 0, {"LIST"})]_vars

\* a listing of three pages was fetched whole
C13_Witness ==
    \E k \in Sessions :
        /\ PastCatalogFetch(k)
        /\ Len(fetched[k]) = 3
        /\ Cardinality(RequestsFor(k, 0, {"LIST"})) = 3
        /\ fetched[k][1].title = "Widget" /\ fetched[k][3].title = "Gizmo"

(***************************************************************************)
(* C14: within a session the remote work is sequential and in input order: *)
(* at most one request is outstanding, it is the one issued last, and a    *)
(* request for a later candidate is issued only after every request of the *)
(* earlier candidates has been answered (with success or failure).         *)
(***************************************************************************)
Outstanding(k) == {j \in 1..Len(sent[k]) : sent[k][j].result = "pending"}

C14_OneRequestAtATime ==
    \A k \in Sessions :
        /\ Cardinality(Outstanding(k)) <= 1
        /\ Outstanding(k) \subseteq {Len(sent[k])}
        /\ (Outstanding(k) = {}) = (net[k] = NoRequest)
        /\ \A a, b \in 1..Len(sent[k]) :
             a < b => /\ sent[k][a].i <= sent[k][b].i
                      /\ sent[k][a].result \in {"ok", "error"}

\* the request of the second candidate is outstanding, after the fetch and
\* the update of the first were answered
C14_Witness ==
    \E k \in Sessions :
        /\ Cardinality(RequestsFor(k, 1, {"GET", "PUT"})) = 2
        /\ \E j \in RequestsFor(k, 2, {"GET", "POST"}) : sent[k][j].result = "pending"

(***************************************************************************)
(* C15: each of two concurrent sessions routes a candidate by its own      *)
(* snapshot alone: the first request for a candidate is a POST exactly     *)
(* when the title lookup in the session's own map finds nothing, whatever  *)
(* the main store holds by then.  So both sessions can create a product    *)
(* with the same title (the state C15_Witness describes).                  *)
(***************************************************************************)
FirstRequestFor(k, i) == CHOOSE j \in RequestsFor(k, i, {"GET", "PUT", "POST"}) :
                            \A x \in RequestsFor(k, i, {"GET", "PUT", "POST"}) : j <= x

C15_CreateDecidedOnOwnSnapshot ==
    \A k \in Sessions : \A i \in 1..Len(Candidates(k)) :
        RequestsFor(k, i, {"GET", "PUT", "POST"}) # {} =>
            /\ productMap[k] = MainStoreProductMap(fetched[k])
            /\ sent[k][FirstRequestFor(k, i)].method =
                 (IF Truthy(GetProperty(productMap[k], Candidates(k)[i].title))
                  THEN "GET" ELSE "POST")

\* both sessions created the same title, absent from both snapshots: the
\* main store now holds two products with it
C15_Witness ==
    \E i \in 1..Len(Candidates(1)) :
        /\ WellFormed(Candidates(1)[i])
        /\ \A k \in Sessions :
             /\ Candidates(k)[i].title \notin SnapshotTitles(k)
             /\ \E j \in RequestsFor(k, i, {"POST"}) : sent[k][j].result = "ok"
        /\ Cardinality({x \in 1..Len(store) : store[x].title = Candidates(1)[i].title}) = 2

(***************************************************************************)
(* C16: there is no rollback.  No step of a session removes a product from *)
(* the main store or issues a request for a candidate it has left behind   *)
(* (no compensating request); and a step in which a candidate fails leaves *)
(* the main store as it was: the store changes only in a step that reports *)
(* the candidate created or updated.                                       *)
(***************************************************************************)
OutcomeWritten(k, kinds) ==
    /\ Len(stream'[k]) = Len(stream[k]) + 1
    /\ stream'[k][Len(stream'[k])].kind \in kinds

C16_NoRollback ==
    [][\A k \in Sessions :
         /\ Len(store') >= Len(store)
         /\ \A x \in 1..Len(store) : store'[x].id = store[x].id
         /\ \A j \in (Len(sent[k]) + 1)..Len(sent'[k]) : sent'[k][j].i \in {0, idx[k]}
         /\ OutcomeWritten(k, {"failed"}) => store' = store]_vars

(***************************************************************************)
(* C17: the lines the caller sees come in this order: the start banner     *)
(* naming the vendor, the fetch-count banner, the per-product lines in     *)
(* input order, then one terminal banner (completion or fatal error); no   *)
(* per-product line precedes the fetch-count banner and nothing follows    *)
(* the terminal banner.                                                    *)
(***************************************************************************)
ProductLineKinds == {"syncing", "found-existing", "not-found", "created", "updated", "failed"}
TerminalKinds == {"sync-complete", "fatal"}

\* the place of a line in the order of the stream
Rank(line) ==
    CASE line.kind \in {"start", "fetching"} -> 1
      [] line.kind = "found" -> 2
      [] line.kind \in ProductLineKinds -> 3
      [] OTHER -> 4

C17_StreamOrder ==
    \A k \in Sessions :
        LET log == ClientLog(k) IN
        /\ \A a, b \in 1..Len(log) :
             a < b => /\ Rank(log[a]) <= Rank(log[b])
                      /\ log[a].i >= 1 => log[a].i <= log[b].i \/ log[b].i = 0
                      /\ log[a].kind \notin TerminalKinds
        /\ \A a \in 1..Len(log) :
             /\ log[a].kind = "start" => a = 1 /\ log[a].text = vendor[k].name
             /\ log[a].kind \in ProductLineKinds =>
                  \E b \in 1..(a - 1) : log[b].kind = "found"

(***************************************************************************)
(* C18: output is incremental.  When a remote request for candidate i+1 is *)
(* issued, the outcome line of candidate i (created, updated or failed) is *)
(* already in the stream; and what was written is never taken back.        *)
(***************************************************************************)
OutcomeKinds == {"created", "updated", "failed"}

C18_OutcomeWrittenBeforeNextRequest ==
    [][\A k \in Sessions :
         /\ Len(stream'[k]) >= Len(stream[k])
         /\ SubSeq(stream'[k], 1, Len(stream[k])) = stream[k]
         /\ \A j \in (Len(sent[k]) + 1)..Len(sent'[k]) :
              \A i \in 1..(sent'[k][j].i - 1) :
                 LinesAbout(k, i, OutcomeKinds) # {}]_vars

\* the request of the second candidate is outstanding and the stream, not
\* yet ended, already tells that the first candidate failed
C18_Witness ==
    \E k \in Sessions :
        /\ net[k].i = 2
        /\ ended[k] = 0
        /\ LinesAbout(k, 1, {"failed"}) # {}
        /\ stream[k][Len(stream[k])].i = 2

(***************************************************************************)
(* C19: a candidate that has no handle gets one derived from its title:    *)
(* lower-cased, each run of whitespace replaced by one hyphen, every       *)
(* character outside [a-z0-9-] deleted ("Men's T-Shirt!!" gives            *)
(* "mens-t-shirt"); a candidate that has a handle keeps it.                *)
(***************************************************************************)
\* the handles the rule gives for the titles of the candidate pool
ExpectedHandle(title) ==
    CASE title = "Widget" -> "widget"
      [] title = "Gadget" -> "gadget"
      [] title = "constructor" -> "constructor"
      [] title = "__proto__" -> "proto"
      [] title = "Men's  T-Shirt!!" -> "mens-t-shirt"

\* the loop has derived the handle of candidate i of session k
HandleSettled(k, i) == idx[k] > i \/ (idx[k] = i /\ pc[k] \in {"get", "put", "post"})

C19_HandleDerivedFromTitle ==
    /\ DeriveHandle("Men's T-Shirt!!") = "mens-t-shirt"
    /\ DeriveHandle(" Blue\t \nHat 2 ") = "-blue-hat-2-"
    /\ \A k \in Sessions : \A i \in 1..Len(products[k].items) :
         products[k].items[i].handle =
            (IF HandleSettled(k, i) /\ ~Present(Candidates(k)[i].handle)
             THEN ExpectedHandle(Candidates(k)[i].title)
             ELSE Candidates(k)[i].handle)

\* one candidate got a derived handle, another kept the handle it came with
C19_Witness ==
    \E k \in Sessions :
        /\ Len(products[k].items) = 2
        /\ HandleSettled(k, 2)
        /\ Candidates(k)[1].handle = Undefined
        /\ products[k].items[1].handle = "mens-t-shirt"
        /\ products[k].items[2].handle = "my-gadget"

(***************************************************************************)
(* C20: when the database is unavailable (MONGODB_URI is not set, or the   *)
(* connection attempt fails) every call of an exported db.js function      *)
(* returns, none throws: connectToDatabase returns null,                   *)
(* getCommissionPercentage 10, getVendors and getFacebookEvents an empty   *)
(* array, getAllProductViewCounts an empty object.                         *)
(***************************************************************************)
DatabaseUnavailable == mongo.uri # "valid" \/ mongo.server # "up"

C20_GracefulWithoutDatabase ==
    (DatabaseUnavailable /\ returned # NoCall) =>
        /\ returned.outcome = "returned"
        /\ returned.fn = "connectToDatabase" => returned.value = "null"
        /\ returned.fn = "getCommissionPercentage" => returned.value = "10"
        /\ returned.fn \in {"getVendors", "getFacebookEvents"} => returned.value = "[]"
        /\ returned.fn = "getAllProductViewCounts" => returned.value = "{}"

(***************************************************************************)
(* C21: when a page of the listing comes back with a non-2xx status or     *)
(* with a body that is not JSON, fetchAllProducts fails with an error that *)
(* tells which, hands no product list to the session (the pages it had     *)
(* are dropped), and requests no further page.                             *)
(***************************************************************************)
ListingErrors ==
    {"Shopify API responded with status 500", "Failed to parse Shopify response.",
     "socket hang up"}

C21_ListingFailureReturnsNothing ==
    \A k \in Sessions : \A j \in 1..Len(sent[k]) :
        (sent[k][j].method = "LIST" /\ sent[k][j].result = "error") =>
            /\ j = Len(sent[k])
            /\ net[k] = NoRequest
            /\ fetched[k] = <<>>
            /\ productMap[k] = EmptyObject
            /\ \A x \in 1..Len(stream[k]) : stream[k][x].kind # "found"
            /\ stream[k][Len(stream[k])].kind = "fatal"
            /\ stream[k][Len(stream[k])].text \in ListingErrors

\* the first page arrived, the second came back with a body that is not JSON
C21_Witness ==
    \E k \in Sessions :
        /\ Len(sent[k]) = 2
        /\ sent[k][1].method = "LIST" /\ sent[k][1].result = "ok"
        /\ sent[k][2].method = "LIST" /\ sent[k][2].result = "error"
        /\ stream[k][Len(stream[k])].text = "Failed to parse Shopify response."
        /\ Len(store) >= 2

(***************************************************************************)
(* C22: in every payload the session sends that carries tags, on the       *)
(* create path and on the update path, tags is one comma-joined string:    *)
(* the candidate's array joined with commas, or the candidate's string.    *)
(***************************************************************************)
C22_TagsAreOneString ==
    \A k \in Sessions :
        (net[k].method \in {"POST", "PUT"} /\ net[k].payload[1].tags.t # "undefined") =>
            LET given == products[k].items[net[k].i].tags
                tags == net[k].payload[1].tags
            IN /\ tags.t = "string"
               /\ given.t = "array" => tags.s = Join(given.items, ",")
               /\ given.t = "string" => tags.s = given.s

(***************************************************************************)
(* C23: every variant emitted in a create or update payload has an         *)
(* inventory_quantity >= 0 (0 for a missing or negative candidate          *)
(* quantity, the candidate's quantity when it is not negative) and a price *)
(* that is a string, "0" when the candidate variant has no price.          *)
(***************************************************************************)
\* the quantity the claim asks for
FlooredQuantity(q) == IF q.t = "number" /\ q.n >= 0 THEN q ELSE JsNum(0)

C23_QuantityFlooredPriceString ==
    \A k \in Sessions :
        net[k].method \in {"POST", "PUT"} =>
            LET given == products[k].items[net[k].i].variants.items
                emitted == net[k].payload[1].variants
            IN \A j \in 1..Len(emitted) :
                 /\ emitted[j].inventory_quantity.t = "number"
                 /\ emitted[j].inventory_quantity.s = ""
                 /\ emitted[j].inventory_quantity.n >= 0
                 /\ emitted[j].price.t = "string"
                 /\ IF j <= Len(given)
                    THEN /\ emitted[j].inventory_quantity =
                              FlooredQuantity(given[j].inventory_quantity)
                         /\ given[j].price \in {JsUndefined, JsNull, JsNum(0), JsStr("")} =>
                              emitted[j].price = JsStr("0")
                         /\ given[j].price.t = "string" /\ given[j].price.s # "" =>
                              emitted[j].price = given[j].price
                    ELSE /\ emitted[j].inventory_quantity = JsNum(0)
                         /\ emitted[j].price = JsStr("0")

\* an update carries a variant whose candidate quantity was negative and
\* whose price was missing, next to one whose quantity was missing
C23_Witness ==
    \E k \in Sessions :
        /\ net[k].method = "PUT"
        /\ Len(net[k].payload[1].variants) = 2
        /\ products[k].items[net[k].i].variants.items[1].inventory_quantity = JsNum(-1)
        /\ products[k].items[net[k].i].variants.items[1].price = JsUndefined
        /\ products[k].items[net[k].i].variants.items[2].inventory_quantity = JsUndefined
        /\ net[k].payload[1].variants[1].inventory_quantity = JsNum(0)

(***************************************************************************)
(* C24: the title-to-id lookup of a session is built once, from the        *)
(* initial catalog fetch, and never changes afterwards; every candidate is *)
(* routed by that snapshot alone, so a product created for candidate i is  *)
(* not seen by a later candidate with the same title, which is sent to     *)
(* create again.                                                           *)
(***************************************************************************)
C24_LookupIsASnapshot ==
    [][\A k \in Sessions :
         /\ idx[k] >= 1 =>
               /\ productMap[k] = MainStoreProductMap(fetched[k])
               /\ productMap'[k] = productMap[k]
         /\ \A j \in (Len(sent[k]) + 1)..Len(sent'[k]) :
              (sent'[k][j].i >= 1 /\ sent'[k][j].method # "PUT") =>
                 sent'[k][j].method =
                    (IF Truthy(GetProperty(MainStoreProductMap(fetched[k]),
                                           Candidates(k)[sent'[k][j].i].title))
                     THEN "GET" ELSE "POST")]_vars

\* two candidates with the same title, absent from the snapshot, were both
\* created: the main store holds the title twice
C24_Witness ==
    \E k \in Sessions :
        /\ Len(Candidates(k)) = 2
        /\ Candidates(k)[1].title = "Widget" /\ Candidates(k)[2].title = "Widget"
        /\ fetched[k] = <<>>
        /\ \A i \in 1..2 : \E j \in RequestsFor(k, i, {"POST"}) : sent[k][j].result = "ok"
        /\ Cardinality({x \in 1..Len(store) : store[x].title = "Widget"}) = 2

(***************************************************************************)
(* C25: every remote request of a sync session (catalog listing, single-   *)
(* product fetch, create, update) goes to the main store's hostname with   *)
(* the process-level access token; no request carries the hostname or the  *)
(* access token of a vendor's store.                                       *)
(***************************************************************************)
VendorHostnames ==
    {Hostname(Credentials(v.shopifyShopName, v.shopifyAccessToken)) : v \in VendorsCollection}
VendorTokens == {v.shopifyAccessToken : v \in VendorsCollection}

C25_MainStoreCredentialsOnly ==
    \A k \in Sessions : \A j \in 1..Len(sent[k]) :
        /\ sent[k][j].hostname = SHOP \o ".myshopify.com"
        /\ sent[k][j].token = ACCESS_TOKEN
        /\ sent[k][j].hostname \notin VendorHostnames
        /\ sent[k][j].token \notin VendorTokens

\* a session run for a stored vendor has listed, fetched, updated and created
C25_Witness ==
    \E k \in Sessions :
        /\ vendor[k] \in VendorsCollection
        /\ {sent[k][j].method : j \in 1..Len(sent[k])} = {"LIST", "GET", "PUT", "POST"}
        /\ \A j \in 1..Len(sent[k]) : sent[k][j].result = "ok"

(***************************************************************************)
(* C26: on the update path the existing main-store product is fetched      *)
(* before the PUT is issued: every PUT directly follows a successful GET   *)
(* of the same product for the same candidate.  When that GET fails, no    *)
(* PUT and no POST is issued for the candidate and the stream carries a    *)
(* failure line for it.                                                    *)
(***************************************************************************)
C26_FetchBeforePutFailedFetchSkips ==
    \A k \in Sessions : \A j \in 1..Len(sent[k]) :
        /\ sent[k][j].method = "PUT" =>
              /\ j > 1
              /\ sent[k][j - 1].method = "GET"
              /\ sent[k][j - 1].result = "ok"
              /\ sent[k][j - 1].i = sent[k][j].i
              /\ sent[k][j - 1].target = sent[k][j].target
        /\ (sent[k][j].method = "GET" /\ sent[k][j].result = "error") =>
              /\ \A m \in 1..Len(sent[k]) :
                    sent[k][m].i = sent[k][j].i => sent[k][m].method \notin {"PUT", "POST"}
              /\ \E n \in 1..Len(stream[k]) :
                    stream[k][n].kind = "failed" /\ stream[k][n].i = sent[k][j].i

\* the fetch of an existing product failed for the first candidate and the
\* session went on to update the second one after a successful fetch
C26_Witness ==
    \E k \in Sessions : \E j, m \in 1..Len(sent[k]) :
        /\ sent[k][j].method = "GET" /\ sent[k][j].result = "error" /\ sent[k][j].i = 1
        /\ IsProductId(store, sent[k][j].target)
        /\ sent[k][m].method = "PUT" /\ sent[k][m].i = 2
        /\ pc[k] = "ended"

(***************************************************************************)
(* C27: the create-or-update decision is made by exact equality of the     *)
(* candidate's title with the title of a main-store product: a candidate   *)
(* is sent down the update path (GET, PUT) exactly when a product of the   *)
(* fetched catalog has its title, and is created (POST) otherwise,         *)
(* whatever its handle; no create or update payload carries a handle.      *)
(***************************************************************************)
C27_DecisionByTitleEquality ==
    \A k \in Sessions :
        /\ \A j \in 1..Len(sent[k]) :
              sent[k][j].i >= 1 =>
                 (sent[k][j].method \in {"GET", "PUT"}) = TitleInSnapshot(k, sent[k][j].i)
        /\ net[k].payload # <<>> => "handle" \notin DOMAIN net[k].payload[1]

\* the part of C27 about the handle: no payload carries one, and two
\* candidates of one session with the same title take the same path
C27_HandlePlaysNoPart ==
    \A k \in Sessions :
        /\ net[k].payload # <<>> => "handle" \notin DOMAIN net[k].payload[1]
        /\ \A j, m \in 1..Len(sent[k]) :
              (/\ sent[k][j].i >= 1 /\ sent[k][m].i >= 1
               /\ Candidates(k)[sent[k][j].i].title = Candidates(k)[sent[k][m].i].title)
              => (sent[k][j].method = "POST") = (sent[k][m].method = "POST")

(***************************************************************************)
(* C28: when the connection attempt succeeds, a call of a db.js function   *)
(* that is made while that first attempt is still in flight works on the   *)
(* connected database: connectToDatabase returns the database, and every   *)
(* other function ends as it ends on a connected database (the result of   *)
(* its query, or its handling of a query error), never as it ends without  *)
(* a database.                                                             *)
(***************************************************************************)
OnConnectedDatabase(fn) ==
    IF fn = "connectToDatabase" THEN {Returned(fn, "handle")}
    ELSE {OnQueryResult(fn, mongo), OnQueryError(fn)}

C28_CallsDuringConnectSeeTheDatabase ==
    (mongo.server = "up" /\ connecting # "none" /\ returned # NoCall) =>
        returned \in OnConnectedDatabase(returned.fn)

(***************************************************************************)
(* C29: connectToDatabase attempts to connect at most once per process:    *)
(* after an attempt with a configured URI has failed no later call makes a *)
(* new attempt and every later call returns null; with no URI configured   *)
(* no attempt is ever made and every call returns null.                    *)
(***************************************************************************)
AttemptFailed == attempts >= 1 /\ connecting = "none" /\ db # "handle"

C29_FailedAttemptIsNeverRepeated ==
    /\ attempts <= 1
    /\ mongo.uri = "unset" => attempts = 0
    /\ (returned.fn = "connectToDatabase" /\ (mongo.uri = "unset" \/ AttemptFailed)) =>
          returned = Returned("connectToDatabase", "null")

\* C29 holds of a URI the driver accepts: the attempt that failed at
\* client.connect() or at the test write is the only one
C29_FailedConnectIsNeverRepeated ==
    mongo.uri # "malformed" => C29_FailedAttemptIsNeverRepeated

(***************************************************************************)
(* C30: for a /send-orders request with a resolvable vendor and a          *)
(* non-empty list of order ids, the orders are processed one at a time in  *)
(* list order (the m-th order fetched is the m-th id of the list, and at   *)
(* most one remote request is outstanding), a failure for one order does   *)
(* not stop the later ones, the response is sent only after every order    *)
(* has been processed, and the success count plus the failure count it     *)
(* reports equals the number of order ids.                                 *)
(***************************************************************************)
IsOrderFetch(r) == r.method = "GET"

OrderFetches == SelectSeq(orderSent, IsOrderFetch)

C30_OrdersInTurnCountsAddUp ==
    LET ids == orderBody.orderIds.items IN
    /\ Cardinality({j \in 1..Len(orderSent) : orderSent[j].result = "pending"}) <= 1
    /\ \A m \in 1..Len(OrderFetches) :
          OrderFetches[m].pos = m /\ OrderFetches[m].orderId = ids[m]
    /\ orderVendor # NullVendor =>
          successCount + errorCount =
             (IF orderPc \in {"fetch", "post"} THEN Len(OrderFetches) - 1
              ELSE Len(OrderFetches))
    /\ (orderVendor # NullVendor /\ response # NoResponse) =>
          /\ Len(ids) >= 1
          /\ response.status = 200
          /\ Len(OrderFetches) = Len(ids)
          /\ \A j \in 1..Len(orderSent) : orderSent[j].result # "pending"
          /\ successCount + errorCount = Len(ids)
          /\ response.message = SentMessage(successCount, errorCount)
          /\ response.success = (errorCount = 0)

\* the first order of the list failed, the second was sent to the vendor,
\* and the response reports one of each
C30_Witness ==
    /\ response.status = 200
    /\ Len(orderBody.orderIds.items) = 2
    /\ orderSent[1].result = "error"
    /\ vendorDrafts = <<orderBody.orderIds.items[2]>>
    /\ response.message = "Successfully sent 1 orders. Failed to send 1 orders."
    /\ ~response.success

====
